---- MODULE Spec2Model ----
(***************************************************************************)
(* MimiC: arena allocator, task table, scheduler and syscall dispatch of   *)
(* the kernel (src/Test-01/mimic_kernel.c and the later draft              *)
(* src/MimiC_1-0-0_Alpha/src/kernel/mimic_kernel.c), and the FAT32 volume  *)
(* layer (src/MimiC-v2-DEBUG/mimic_debug2/src/fs/mimic_fat32.c).           *)
(*                                                                         *)
(* The repository holds two drafts of the kernel.  They share the          *)
(* allocator and the scheduler and differ in mimic_ufree,                  *)
(* mimic_task_free_all_memory, mimic_task_kill, task_init and task_alloc.  *)
(* The variable draft says which of the two is built; every operation that *)
(* differs has one definition per draft.  The Test-01 kernel is built with *)
(* the file system of its own tree (src/Test-01/mimic_fat32.c), the Alpha  *)
(* kernel, whose tree holds only the header of its file system, with that  *)
(* of v2-DEBUG.                                                            *)
(***************************************************************************)
EXTENDS Integers, Sequences, FiniteSets, TLC

\* ---------------------------------------------------------------- sizes
\* The pools, the tables and the machine word are scaled down; the ratios the
\* code depends on (alignment 32, split threshold 64) are kept as they are.
MaxTasks == 4
MaxMemBlocks == 3
UserGranules == 6
KernelGranules == 4
WordBits == 10
MaxTime == 2

MIMIC_MEM_ALIGN == 32
MIMIC_MIN_BLOCK_SPLIT == 64

MIMIC_MAX_TASKS == MaxTasks
MIMIC_MAX_MEM_BLOCKS == MaxMemBlocks
MIMIC_USER_HEAP == UserGranules * MIMIC_MEM_ALIGN
MIMIC_KERNEL_HEAP == KernelGranules * MIMIC_MEM_ALIGN

\* size_t / uint32_t arithmetic wraps at 2^WordBits
SIZE_T == 2 ^ WordBits
SIZE_MAX == SIZE_T - 1

NULL == 0
\* static uint8_t ALIGNED(32) kernel_heap[], user_heap[]
kernel_heap == 2 * MIMIC_MEM_ALIGN
user_heap == kernel_heap + MIMIC_KERNEL_HEAP

VARIABLES
    draft,          \* "Test01" or "Alpha": which kernel source is built
    mem_blocks,     \* kernel.mem_blocks[0 .. mem_block_count-1]
    kernel_free,    \* kernel.kernel_free
    user_blocks,    \* kernel.user_blocks[0 .. user_block_count-1]
    user_free,      \* kernel.user_free
    total_frees,    \* kernel.total_frees (width scaled to one bit)
    tasks,          \* kernel.tasks[]: state, priority, wake_time of each slot
    task_count,     \* kernel.task_count
    current_task,   \* kernel.current_task
    running,        \* kernel.running
    now_ms,         \* time_us_64() / 1000
    pc,             \* the kernel call in progress and how far it has got
    ret,            \* the last allocation request and its result
    spawn,          \* the last task loaded, the user free-byte count before its
                    \* load, and how many blocks it has been given since
    vol,            \* the mounted volume: the card's sectors and the sector cache
    files,          \* files[0 .. MIMIC_MAX_FILES-1]: the open-file handles
    fs_ret,         \* the last file call: its return value and the bytes read
    trip,           \* how far a write; flush; close; open; read sequence has got
    made,           \* how far an open(WRITE|CREATE) of a path the card does not
                    \* hold; close; open(READ) sequence has got
    load,           \* the last mimic_task_load: its image, its result, the
                    \* task->mem it filled, and the counts it started from
    reloc,          \* the last relocation of the loader's loop: the entry, the
                    \* symbol value, the address patched and what was written
    lnk,            \* the LinkerState of mimic_cc_link, the objects it has
                    \* been given, its return value and the header it wrote
    stream,         \* the MimicStream of a caller, with the bytes putc has
                    \* taken and the bytes mimic_fwrite has taken from it
    cg,             \* the branch cg_fixup_branches patched last, with the
                    \* bytes it stored into cg->code
    conc            \* concurrent callers: the mimic_ufree that is between its
                    \* check and its free, and what each caller holds of
                    \* the locks of the kernel

arena_vars == <<mem_blocks, kernel_free, user_blocks, user_free, total_frees>>
task_vars == <<tasks, task_count, current_task, running, now_ms, pc, spawn>>
fs_vars == <<vol, files, fs_ret, trip, made>>
kernel_vars == <<draft, arena_vars, task_vars, ret>>
ext_vars == <<reloc, lnk, stream, cg, conc>>
vars == <<draft, mem_blocks, kernel_free, user_blocks, user_free, total_frees,
          tasks, task_count, current_task, running, now_ms, pc, ret, spawn,
          vol, files, fs_ret, trip, made, load, reloc, lnk, stream, cg,
          conc>>

Drafts == {"Test01", "Alpha"}

\* kernel.total_frees++ on a counter one bit wide
CounterMod == 2
Inc(c) == (c + 1) % CounterMod

\* ---------------------------------------------------------------- arena
MemBlock(addr, size, task_id, free) ==
    [addr |-> addr, size |-> size, task_id |-> task_id, free |-> free, pinned |-> FALSE]

\* size = (size + MIMIC_MEM_ALIGN - 1) & ~(MIMIC_MEM_ALIGN - 1)
AlignUp(size) ==
    LET s == (size + MIMIC_MEM_ALIGN - 1) % SIZE_T
    IN  s - (s % MIMIC_MEM_ALIGN)

\* best_idx = 0xFFFFFFFF: nothing found
NOT_FOUND == 0

\* The best-fit loop of mem_alloc_from_pool, from index i on.
RECURSIVE BestFitScan(_, _, _, _, _)
BestFitScan(blocks, size, i, best_idx, best_size) ==
    IF i > Len(blocks) THEN best_idx
    ELSE IF blocks[i].free /\ blocks[i].size >= size /\ blocks[i].size < best_size
         THEN IF blocks[i].size = size
              THEN i
              ELSE BestFitScan(blocks, size, i + 1, i, blocks[i].size)
         ELSE BestFitScan(blocks, size, i + 1, best_idx, best_size)

\* block->size > size + MIMIC_MIN_BLOCK_SPLIT && *block_count < max_blocks
SplitWanted(block_size, size, block_count, max_blocks) ==
    block_size > size + MIMIC_MIN_BLOCK_SPLIT /\ block_count < max_blocks

\* mem_alloc_from_pool with *free_bytes -= size in place of
\* *free_bytes -= block->size: the count drifts when a block is handed out
\* whole although it is larger than the request.
mem_alloc_charging_request(blocks, free_bytes, size, task_id, max_blocks) ==
    IF size = 0
    THEN [blocks |-> blocks, free_bytes |-> free_bytes, result |-> NULL]
    ELSE
      LET asize == AlignUp(size)
          best  == BestFitScan(blocks, asize, 1, NOT_FOUND, SIZE_MAX)
      IN  IF best = NOT_FOUND
          THEN [blocks |-> blocks, free_bytes |-> free_bytes, result |-> NULL]
          ELSE
            LET b     == blocks[best]
                split == SplitWanted(b.size, asize, Len(blocks), max_blocks)
                taken == [b EXCEPT !.size = IF split THEN asize ELSE b.size,
                                   !.free = FALSE,
                                   !.task_id = task_id]
                rest  == MemBlock(b.addr + asize, b.size - asize, 0, TRUE)
                nb    == IF split
                         THEN Append([blocks EXCEPT ![best] = taken], rest)
                         ELSE [blocks EXCEPT ![best] = taken]
            IN  [blocks |-> nb,
                 free_bytes |-> free_bytes - asize,
                 result |-> b.addr]

\* mem_alloc_from_pool: the new table, the new free-byte count and the result
mem_alloc_from_pool(blocks, free_bytes, size, task_id, max_blocks) ==
    IF size = 0
    THEN [blocks |-> blocks, free_bytes |-> free_bytes, result |-> NULL]
    ELSE
      LET asize == AlignUp(size)
          best  == BestFitScan(blocks, asize, 1, NOT_FOUND, SIZE_MAX)
      IN  IF best = NOT_FOUND
          THEN [blocks |-> blocks, free_bytes |-> free_bytes, result |-> NULL]
          ELSE
            LET b     == blocks[best]
                split == SplitWanted(b.size, asize, Len(blocks), max_blocks)
                taken == [b EXCEPT !.size = IF split THEN asize ELSE b.size,
                                   !.free = FALSE,
                                   !.task_id = task_id]
                rest  == MemBlock(b.addr + asize, b.size - asize, 0, TRUE)
                nb    == IF split
                         THEN Append([blocks EXCEPT ![best] = taken], rest)
                         ELSE [blocks EXCEPT ![best] = taken]
            IN  [blocks |-> nb,
                 free_bytes |-> free_bytes - taken.size,
                 result |-> b.addr]

\* The block mem_free_in_pool acts on: the first with addr == ptr && !free.
RECURSIVE FindLive(_, _, _)
FindLive(blocks, ptr, i) ==
    IF i > Len(blocks) THEN NOT_FOUND
    ELSE IF blocks[i].addr = ptr /\ ~blocks[i].free THEN i
         ELSE FindLive(blocks, ptr, i + 1)

\* a free that takes the first block at ptr whether it is allocated or not
free_in_pool_again(blocks, free_bytes, frees, ptr) ==
    IF ptr = NULL \/ \A i \in 1..Len(blocks) : blocks[i].addr # ptr THEN
        [blocks |-> blocks, free_bytes |-> free_bytes, frees |-> frees]
    ELSE [blocks |-> [blocks EXCEPT
                        ![CHOOSE i \in 1..Len(blocks) : blocks[i].addr = ptr].free = TRUE],
          free_bytes |-> free_bytes
              + blocks[CHOOSE i \in 1..Len(blocks) : blocks[i].addr = ptr].size,
          frees |-> Inc(frees)]

\* a free that marks the block and leaves the free-byte count alone
free_in_pool_uncounted(blocks, free_bytes, frees, ptr) ==
    IF ptr = NULL \/ FindLive(blocks, ptr, 1) = NOT_FOUND THEN
        [blocks |-> blocks, free_bytes |-> free_bytes, frees |-> frees]
    ELSE [blocks |-> [blocks EXCEPT ![FindLive(blocks, ptr, 1)].free = TRUE],
          free_bytes |-> free_bytes, frees |-> Inc(frees)]

\* mem_free_in_pool: the new table, free-byte count and total_frees
mem_free_in_pool(blocks, free_bytes, frees, ptr) ==
    LET same == [blocks |-> blocks, free_bytes |-> free_bytes, frees |-> frees]
        i    == FindLive(blocks, ptr, 1)
    IN  IF ptr = NULL THEN same
        ELSE IF i = NOT_FOUND THEN same
        ELSE IF blocks[i].pinned THEN same
        ELSE [blocks |-> [blocks EXCEPT ![i].free = TRUE],
              free_bytes |-> free_bytes + blocks[i].size,
              frees |-> Inc(frees)]

\* One inner pass of the bubble sort: j runs from 1 to limit, swapping
\* neighbours whose addresses are out of order.
RECURSIVE BubblePass(_, _, _)
BubblePass(blocks, j, limit) ==
    IF j > limit THEN blocks
    ELSE IF blocks[j].addr > blocks[j + 1].addr
         THEN BubblePass([blocks EXCEPT ![j] = blocks[j + 1], ![j + 1] = blocks[j]],
                         j + 1, limit)
         ELSE BubblePass(blocks, j + 1, limit)

\* for (i = 0; i < count - 1; i++) for (j = 0; j < count - i - 1; j++) ...
RECURSIVE BubbleSort(_, _)
BubbleSort(blocks, i) ==
    IF i >= Len(blocks) - 1 THEN blocks
    ELSE BubbleSort(BubblePass(blocks, 1, Len(blocks) - i - 1), i + 1)

\* The merge loop: out is blocks[0 .. write_idx-1].
RECURSIVE MergeAdjacent(_, _, _)
MergeAdjacent(blocks, i, out) ==
    IF i > Len(blocks) THEN out
    ELSE IF /\ i > 1
            /\ out[Len(out)].free
            /\ blocks[i].free
            /\ out[Len(out)].addr + out[Len(out)].size = blocks[i].addr
         THEN MergeAdjacent(blocks, i + 1,
                            [out EXCEPT ![Len(out)].size = @ + blocks[i].size])
         ELSE MergeAdjacent(blocks, i + 1, Append(out, blocks[i]))

\* mem_coalesce_pool (Test-01 only)
mem_coalesce_pool(blocks) == MergeAdjacent(BubbleSort(blocks, 0), 1, <<>>)

\* mimic_ufree, Test-01: the owner check, then the free
mimic_ufree_Test01(blocks, free_bytes, frees, task_id, ptr) ==
    LET valid == \E i \in 1..Len(blocks) :
                    blocks[i].addr = ptr /\ blocks[i].task_id = task_id
    IN  IF valid THEN mem_free_in_pool(blocks, free_bytes, frees, ptr)
        ELSE [blocks |-> blocks, free_bytes |-> free_bytes, frees |-> frees]

\* mimic_ufree, Alpha: (void)task_id;  // TODO: verify ownership
mimic_ufree_Alpha(blocks, free_bytes, frees, task_id, ptr) ==
    mem_free_in_pool(blocks, free_bytes, frees, ptr)

mimic_ufree(d, blocks, free_bytes, frees, task_id, ptr) ==
    IF d = "Test01" THEN mimic_ufree_Test01(blocks, free_bytes, frees, task_id, ptr)
    ELSE mimic_ufree_Alpha(blocks, free_bytes, frees, task_id, ptr)

\* The loop of mimic_task_free_all_memory from index i on.
RECURSIVE FreeOwned(_, _, _, _, _)
FreeOwned(blocks, free_bytes, frees, task_id, i) ==
    IF i > Len(blocks)
    THEN [blocks |-> blocks, free_bytes |-> free_bytes, frees |-> frees]
    ELSE IF blocks[i].task_id = task_id /\ ~blocks[i].free
         THEN FreeOwned([blocks EXCEPT ![i].free = TRUE],
                        free_bytes + blocks[i].size, Inc(frees), task_id, i + 1)
         ELSE FreeOwned(blocks, free_bytes, frees, task_id, i + 1)

\* mimic_task_free_all_memory with a loop that stops at the first block it
\* frees.
free_all_stopping_at_first(d, blocks, free_bytes, frees, task_id) ==
    LET owned == {i \in 1..Len(blocks) :
                    blocks[i].task_id = task_id /\ ~blocks[i].free}
        first == CHOOSE i \in owned : \A j \in owned : i <= j
        freed == IF owned = {} THEN blocks ELSE [blocks EXCEPT ![first].free = TRUE]
    IN  [blocks |-> IF d = "Test01" THEN mem_coalesce_pool(freed) ELSE freed,
         free_bytes |-> IF owned = {} THEN free_bytes
                        ELSE free_bytes + blocks[first].size,
         frees |-> IF owned = {} THEN frees ELSE Inc(frees)]

\* mimic_task_free_all_memory: Test-01 ends with a coalesce, Alpha does not
mimic_task_free_all_memory(d, blocks, free_bytes, frees, task_id) ==
    LET r == FreeOwned(blocks, free_bytes, frees, task_id, 1)
    IN  IF d = "Test01"
        THEN [r EXCEPT !.blocks = mem_coalesce_pool(r.blocks)]
        ELSE r

\* ------------------------------------------------------------ initial state
\* mem_init
MemInit ==
    /\ mem_blocks = <<MemBlock(kernel_heap, MIMIC_KERNEL_HEAP, 0, TRUE)>>
    /\ kernel_free = MIMIC_KERNEL_HEAP
    /\ user_blocks = <<MemBlock(user_heap, MIMIC_USER_HEAP, 0, TRUE)>>
    /\ user_free = MIMIC_USER_HEAP
    /\ total_frees = 0

\* ret: the last allocation request and the pointer it returned; any other call
\* clears it.
NoCall == [op |-> "none", arg |-> 0, val |-> 0]
Call(op, arg, val) == [op |-> op, arg |-> arg, val |-> val]

\* ---------------------------------------------------------------- tasks
TASK_STATE_FREE == "FREE"
TASK_STATE_READY == "READY"
TASK_STATE_RUNNING == "RUNNING"
TASK_STATE_BLOCKED == "BLOCKED"
TASK_STATE_SLEEPING == "SLEEPING"
TASK_STATE_ZOMBIE == "ZOMBIE"

Slots == 0..(MIMIC_MAX_TASKS - 1)
UserSlots == 1..(MIMIC_MAX_TASKS - 1)
IDLE_PRIORITY == 255

TCB(state, priority, wake_time) ==
    [state |-> state, priority |-> priority, wake_time |-> wake_time]

Idle == [op |-> "idle", task |-> 0, step |-> "none"]
At(op, task, step) == [op |-> op, task |-> task, step |-> step]

NoSpawn == [task |-> 0, free |-> 0, mallocs |-> 0]

\* task_init: slot 0 is the kernel/idle task, READY in Test-01 and RUNNING in
\* Alpha; every other slot is zeroed, that is FREE.
TaskInit ==
    /\ tasks = [i \in Slots |->
                  IF i = 0
                  THEN TCB(IF draft = "Test01" THEN TASK_STATE_READY
                           ELSE TASK_STATE_RUNNING, IDLE_PRIORITY, 0)
                  ELSE TCB(TASK_STATE_FREE, 0, 0)]
    /\ task_count = 1
    /\ current_task = 0

\* ------------------------------------------------------------ FAT32 volume
\* The file system of the v2-DEBUG draft.  One cell stands for a 32-bit word:
\* a sector is SectorCells cells (512 bytes in the source), a FAT entry is one
\* cell, and a directory entry is DirEntryCells cells (name, fst_clus_hi,
\* fst_clus_lo, file_size).  Sizes and positions are counted in cells.
SectorCells == 4
FatSectors == 2
TotalClusters == 3
MaxFiles == 1
MaxPosition == 5
DirEntryCells == 4

MIMIC_MAX_FILES == MaxFiles
FAT32_EOC == 268435448
FAT32_FREE == 0
FAT_ENTRY_MASK == 268435455
\* uint32_t arithmetic wraps at 2^30 here; every value the volume stores is
\* below 2^28
UINT32 == 1073741824
UINT16 == 65536
DIR_NAME_UNUSED == 0
DIR_NAME_DELETED == 229

MIMIC_OK == 0
MIMIC_ERR_NOMEM == -1
MIMIC_ERR_INVAL == -2
MIMIC_ERR_NOENT == -3
MIMIC_ERR_IO == -4
MIMIC_ERR_PERM == -6
MIMIC_ERR_NOSYS == -7
MIMIC_ERR_CORRUPT == -8
MIMIC_ERR_NOEXEC == -10

MIMIC_FILE_READ == 1
MIMIC_FILE_WRITE == 2
MIMIC_FILE_APPEND == 4
MIMIC_FILE_CREATE == 8
MIMIC_FILE_TRUNC == 16
MIMIC_SEEK_SET == 0
MIMIC_SEEK_CUR == 1
MIMIC_SEEK_END == 2

\* mode & flag
HasFlag(mode, flag) == (mode \div flag) % 2 = 1

\* the geometry fat32 mount reads from the boot sector
fat_start_sector == 1
sectors_per_cluster == 1
root_cluster == 2
data_start_sector == fat_start_sector + FatSectors
total_clusters == TotalClusters
bytes_per_cluster == sectors_per_cluster * SectorCells
EntriesPerSector == SectorCells \div DirEntryCells
TotalSectors == data_start_sector + total_clusters * sectors_per_cluster

Cells == 0..(SectorCells - 1)
Sectors == 0..(TotalSectors - 1)
Fds == 0..(MIMIC_MAX_FILES - 1)
ZeroSector == [c \in Cells |-> 0]

\* a formatted card: clusters 0 and 1 reserved, the root directory a single
\* empty cluster, every other cluster free
FormattedDisk ==
    [s \in Sectors |->
        IF s = fat_start_sector
        THEN [c \in Cells |-> IF c <= root_cluster THEN FAT32_EOC ELSE FAT32_FREE]
        ELSE ZeroSector]

ClosedFile ==
    [open |-> FALSE, mode |-> 0, dir_cluster |-> 0, dir_entry_idx |-> 0,
     first_cluster |-> 0, current_cluster |-> 0, cluster_offset |-> 0,
     file_size |-> 0, position |-> 0]

NoFsCall == [op |-> "none", val |-> 0, out |-> <<>>]
FsCall(op, val, out) == [op |-> op, val |-> val, out |-> out]
NoTrip == [stage |-> "none", fd |-> 0, n |-> 0]
NoMade == [stage |-> "none", fd |-> 0]

\* the volume after mount: the boot sector is the cached sector
FsInit ==
    /\ vol = [disk |-> FormattedDisk, sector_buf |-> FormattedDisk[0],
              cached_sector |-> 0, cache_dirty |-> FALSE]
    /\ files = [fd \in Fds |-> ClosedFile]
    /\ fs_ret = NoFsCall
    /\ trip = NoTrip
    /\ made = NoMade

\* ------------------------------------------------------------ .mimi images
\* The header of a .mimi image, as mimic_load_binary reads it from the file.
MIMI_MAGIC == 1229801805
MIMI_VERSION == 1
MIMI_ARCH_CORTEX_M0P == 0
MIMI_ARCH_CORTEX_M33 == 1
\* MIMIC_TARGET_RP2350 is 0: the build is for the RP2040
TargetArchs == {MIMI_ARCH_CORTEX_M0P}
\* sizeof(MimiSymbol)
SymbolBytes == 24
\* hdr.stack_request == 0 and hdr.heap_request == 0 ask for 4096 and 8192
\* bytes; the defaults keep that ratio in the arena of UserGranules granules
DefaultStack == 32
DefaultHeap == 64

PlainImage ==
    [magic |-> MIMI_MAGIC, version |-> MIMI_VERSION, arch |-> MIMI_ARCH_CORTEX_M0P,
     entry_offset |-> 0, text_size |-> MIMIC_MEM_ALIGN, rodata_size |-> 0,
     data_size |-> 0, bss_size |-> 0, reloc_count |-> 0, symbol_count |-> 0,
     stack_request |-> MIMIC_MEM_ALIGN, heap_request |-> MIMIC_MEM_ALIGN]

\* task->mem before a loader has filled it
NoLayout ==
    [base |-> NULL, total_size |-> 0, text_start |-> 0, text_size |-> 0,
     rodata_start |-> 0, rodata_size |-> 0, data_start |-> 0, data_size |-> 0,
     bss_start |-> 0, bss_size |-> 0, heap_start |-> 0, heap_size |-> 0,
     stack_top |-> 0, stack_size |-> 0]

\* reloc before any relocation
NoReloc ==
    [entry |-> [offset |-> 0, section |-> 0, type |-> 0, symbol_idx |-> 0],
     layout |-> NoLayout, symbol_count |-> 0, applied |-> FALSE,
     patch_addr |-> 0, sym_value |-> 0, written |-> <<>>]

\* a MimicStream that is not open; put and sent record the bytes that putc
\* took and the bytes that mimic_fwrite took
NoStream ==
    [fd |-> -1, buffer |-> <<>>, buf_size |-> 0, buf_pos |-> 0,
     writing |-> FALSE, put |-> <<>>, sent |-> <<>>, refused |-> FALSE,
     op |-> "none", ret |-> MIMIC_OK]

\* LinkerState lnk = {0}; no call of mimic_cc_link yet
NoLink ==
    [stage |-> "idle", objs |-> <<>>, symbols |-> <<>>, relocs |-> <<>>,
     text_size |-> 0, data_size |-> 0, entry_offset |-> 0, has_entry |-> FALSE,
     error_count |-> 0, err |-> MIMIC_OK, hdr_entry_offset |-> <<>>]

\* no branch patched yet
NoCg == [code_offset |-> 0, target |-> 0, rel |-> 0, fixed |-> FALSE, code |-> <<>>]

\* Callers of the kernel that run at the same time, and its locks.
Callers == 1..2
Locks == {"task_lock", "user_lock", "mem_lock", "sched_cs"}
NoUfree == [stage |-> "idle", task |-> 0, ptr |-> 0, valid |-> FALSE]
NotFreed == [done |-> FALSE, task |-> 0, owner |-> 0]
NoConc ==
    [ufree |-> NoUfree, freed |-> NotFreed,
     at |-> [c \in Callers |-> [op |-> "none", i |-> 0]],
     held |-> [l \in Locks |-> 0]]

\* load before any mimic_task_load
NoLoad ==
    [task |-> 0, hdr |-> PlainImage, fault |-> "none", err |-> MIMIC_OK,
     layout |-> NoLayout, count_before |-> 0, free_before |-> 0,
     live_before |-> {}]

\* mimic_kernel_init, then the mount of the card
Init ==
    /\ draft \in Drafts
    /\ MemInit
    /\ TaskInit
    /\ running = FALSE
    /\ now_ms = 0
    /\ pc = Idle
    /\ ret = NoCall
    /\ spawn = NoSpawn
    /\ FsInit
    /\ load = NoLoad
    /\ reloc = NoReloc
    /\ lnk = NoLink
    /\ stream = NoStream
    /\ cg = NoCg
    /\ conc = NoConc

\* ------------------------------------------------------- arena API actions
\* Requests: 0, one byte, one byte more than the alignment, and the largest
\* size_t.
AllocSizes == {0, 1, MIMIC_MEM_ALIGN + 1, SIZE_MAX}
KernelAllocSizes == {0, 1}
UserPtrs == {NULL} \cup {user_heap + k * MIMIC_MEM_ALIGN : k \in 0..(UserGranules - 1)}
KernelPtrs == {NULL} \cup {kernel_heap + k * MIMIC_MEM_ALIGN : k \in 0..(KernelGranules - 1)}
ArenaTasks == 1..2

\* void* mimic_kmalloc(size)
KMalloc(size) ==
    LET r == mem_alloc_from_pool(mem_blocks, kernel_free, size, 0, MIMIC_MAX_MEM_BLOCKS)
    IN  /\ mem_blocks' = r.blocks
        /\ kernel_free' = r.free_bytes
        /\ ret' = Call("kmalloc", size, r.result)
        /\ UNCHANGED <<draft, fs_vars, load, ext_vars, user_blocks, user_free, total_frees, task_vars>>

\* void mimic_kfree(ptr)
KFree(ptr) ==
    LET r == mem_free_in_pool(mem_blocks, kernel_free, total_frees, ptr)
    IN  /\ mem_blocks' = r.blocks
        /\ kernel_free' = r.free_bytes
        /\ total_frees' = r.frees
        /\ ret' = NoCall
        /\ UNCHANGED <<draft, fs_vars, load, ext_vars, user_blocks, user_free, task_vars>>

\* void* mimic_umalloc(task_id, size)
UMalloc(task_id, size) ==
    LET r == mem_alloc_from_pool(user_blocks, user_free, size, task_id, MIMIC_MAX_MEM_BLOCKS)
    IN  /\ user_blocks' = r.blocks
        /\ user_free' = r.free_bytes
        /\ ret' = Call("umalloc", size, r.result)
        /\ UNCHANGED <<draft, fs_vars, load, ext_vars, mem_blocks, kernel_free, total_frees, task_vars>>

\* void mimic_ufree(task_id, ptr)
UFree(task_id, ptr) ==
    LET r == mimic_ufree(draft, user_blocks, user_free, total_frees, task_id, ptr)
    IN  /\ user_blocks' = r.blocks
        /\ user_free' = r.free_bytes
        /\ total_frees' = r.frees
        /\ ret' = NoCall
        /\ UNCHANGED <<draft, fs_vars, load, ext_vars, mem_blocks, kernel_free, task_vars>>

\* void mimic_task_free_all_memory(task_id)
TaskFreeAll(task_id) ==
    LET r == mimic_task_free_all_memory(draft, user_blocks, user_free, total_frees, task_id)
    IN  /\ user_blocks' = r.blocks
        /\ user_free' = r.free_bytes
        /\ total_frees' = r.frees
        /\ ret' = NoCall
        /\ UNCHANGED <<draft, fs_vars, load, ext_vars, mem_blocks, kernel_free, task_vars>>

\* mimic_ufree up to the mutex_exit that ends its owner check; Alpha has no
\* check
UFreeCheck(task_id, ptr) ==
    /\ conc.ufree.stage = "idle"
    /\ conc' = [conc EXCEPT
                  !.ufree = [stage |-> "checked", task |-> task_id, ptr |-> ptr,
                             valid |-> \/ draft # "Test01"
                                       \/ \E i \in 1..Len(user_blocks) :
                                             /\ user_blocks[i].addr = ptr
                                             /\ user_blocks[i].task_id = task_id],
                  !.freed = NotFreed]
    /\ UNCHANGED <<kernel_vars, fs_vars, load, reloc, lnk, stream, cg>>

\* the block mem_free_in_pool(ptr) releases: its owner as the call finds it
Released(blocks, task_id, ptr) ==
    IF ptr = NULL \/ FindLive(blocks, ptr, 1) = NOT_FOUND THEN NotFreed
    ELSE IF blocks[FindLive(blocks, ptr, 1)].pinned THEN NotFreed
    ELSE [done |-> TRUE, task |-> task_id,
          owner |-> blocks[FindLive(blocks, ptr, 1)].task_id]

\* mimic_ufree from "if (valid)" on: mem_free_in_pool takes the lock again
UFreeRelease ==
    /\ conc.ufree.stage = "checked"
    /\ LET r == IF conc.ufree.valid
                THEN mem_free_in_pool(user_blocks, user_free, total_frees, conc.ufree.ptr)
                ELSE [blocks |-> user_blocks, free_bytes |-> user_free,
                      frees |-> total_frees]
       IN  /\ user_blocks' = r.blocks
           /\ user_free' = r.free_bytes
           /\ total_frees' = r.frees
    /\ conc' = [conc EXCEPT
                  !.ufree = NoUfree,
                  !.freed = IF conc.ufree.valid
                            THEN Released(user_blocks, conc.ufree.task, conc.ufree.ptr)
                            ELSE NotFreed]
    /\ ret' = NoCall
    /\ UNCHANGED <<draft, fs_vars, load, reloc, lnk, stream, cg, mem_blocks,
                   kernel_free, task_vars>>

\* Two tasks allocate one byte and a little more than a granule and free
\* what they hold, and each is freed of all its memory as a kill does, at any
\* moment of a mimic_ufree.
RaceSizes == {1, MIMIC_MEM_ALIGN + 1}

NextUFree ==
    \/ \E t \in ArenaTasks, n \in RaceSizes : UMalloc(t, n)
    \/ \E t \in ArenaTasks, p \in UserPtrs : UFreeCheck(t, p)
    \/ UFreeRelease
    \/ \E t \in ArenaTasks : TaskFreeAll(t)

SpecUFree == Init /\ [][NextUFree]_vars

NextArena ==
    \/ \E n \in KernelAllocSizes : KMalloc(n)
    \/ \E p \in KernelPtrs : KFree(p)
    \/ \E t \in ArenaTasks, n \in AllocSizes : UMalloc(t, n)
    \/ \E t \in ArenaTasks, p \in UserPtrs : UFree(t, p)
    \/ \E t \in ArenaTasks : TaskFreeAll(t)

SpecArena == Init /\ [][NextArena]_vars

\* ------------------------------------------------------------- scheduler
\* The first loop of scheduler_tick: sleepers whose wake_time has come.
WakeSleepers(ts, now) ==
    [i \in Slots |->
        IF i >= 1 /\ ts[i].state = TASK_STATE_SLEEPING /\ now >= ts[i].wake_time
        THEN [ts[i] EXCEPT !.state = TASK_STATE_READY]
        ELSE ts[i]]

\* The second loop: the READY slot of lowest priority value, first one on a
\* tie; slot 0 if none beats best_prio = 255.
RECURSIVE PickNext(_, _, _, _)
PickNext(ts, i, next, best_prio) ==
    IF i >= MIMIC_MAX_TASKS THEN next
    ELSE IF ts[i].state = TASK_STATE_READY /\ ts[i].priority < best_prio
         THEN PickNext(ts, i + 1, i, ts[i].priority)
         ELSE PickNext(ts, i + 1, next, best_prio)

\* scheduler_tick: the new task table and current_task
scheduler_tick(ts, cur, now, run) ==
    IF ~run THEN [tasks |-> ts, current_task |-> cur]
    ELSE
      LET woke == WakeSleepers(ts, now)
          next == PickNext(woke, 1, 0, IDLE_PRIORITY)
      IN  IF next # cur
          THEN [tasks |-> [woke EXCEPT ![cur].state = TASK_STATE_READY,
                                       ![next].state = TASK_STATE_RUNNING],
                current_task |-> next]
          ELSE [tasks |-> woke, current_task |-> cur]

\* uint8_t task_count
TaskCountMod == 8
CountUp(c) == (c + 1) % TaskCountMod
CountDown(c) == (c + TaskCountMod - 1) % TaskCountMod

\* task_alloc: the first FREE slot from 1 on, 0 if there is none
task_alloc(ts) ==
    IF \E i \in UserSlots : ts[i].state = TASK_STATE_FREE
    THEN CHOOSE i \in UserSlots :
            /\ ts[i].state = TASK_STATE_FREE
            /\ \A j \in UserSlots : j < i => ts[j].state # TASK_STATE_FREE
    ELSE 0

\* What task_alloc leaves in the slot: Test-01 sets state BLOCKED and keeps the
\* other fields, Alpha zeroes the TCB and sets state READY.
AllocatedTCB(d, tcb) ==
    IF d = "Test01" THEN [tcb EXCEPT !.state = TASK_STATE_BLOCKED]
    ELSE TCB(TASK_STATE_READY, 0, 0)

\* mimic_load_binary for an image of total_size bytes whose header is valid
\* and which has no relocations.  fault says where the file fails: "open"
\* before anything is allocated, "read" while a section is read into the
\* allocated image, "none" nowhere.
mimic_load_binary(d, blocks, free_bytes, frees, task_id, total_size, fault) ==
    LET same == [blocks |-> blocks, free_bytes |-> free_bytes, frees |-> frees]
        a    == mem_alloc_from_pool(blocks, free_bytes, total_size, task_id,
                                    MIMIC_MAX_MEM_BLOCKS)
        kept == [blocks |-> a.blocks, free_bytes |-> a.free_bytes, frees |-> frees]
    IN  IF fault = "open"
        THEN [mem |-> same, err |-> MIMIC_ERR_NOENT, base |-> NULL]
        ELSE IF a.result = NULL
        THEN [mem |-> same, err |-> MIMIC_ERR_NOMEM, base |-> NULL]
        ELSE IF fault = "read"
             THEN [mem |-> mimic_ufree(d, a.blocks, a.free_bytes, frees, task_id, a.result),
                   err |-> IF d = "Test01" THEN MIMIC_ERR_IO ELSE MIMIC_ERR_CORRUPT,
                   base |-> a.result]
             ELSE [mem |-> kept, err |-> MIMIC_OK, base |-> a.result]

\* ------------------------------------------------------------ kernel calls
LoadPrios == {2, 5}
LoadSizes == {MIMIC_MEM_ALIGN}
LoadFaults == {"none", "open", "read"}
\* cmd_run: mimic_task_load(argv[1], 8)
SHELL_PRIORITY == 8
MallocsWanted == 2
MemTasks == 2
TaskAllocSizes == {1, MIMIC_MEM_ALIGN + 1, SIZE_MAX}

\* mimic_kernel_run: kernel.running = true
KernelRun ==
    /\ pc = Idle
    /\ ~running
    /\ running' = TRUE
    /\ UNCHANGED <<draft, fs_vars, load, ext_vars, arena_vars, tasks, task_count, current_task, now_ms, pc,
                   ret, spawn>>

\* mimic_task_load, first half: task_alloc
TaskLoadBegin ==
    /\ pc = Idle
    /\ LET slot == task_alloc(tasks)
       IN  IF slot = 0
           THEN UNCHANGED <<tasks, task_count, pc, spawn>>
           ELSE /\ tasks' = [tasks EXCEPT ![slot] = AllocatedTCB(draft, @)]
                /\ task_count' = CountUp(task_count)
                /\ pc' = At("load", slot, "alloc")
                /\ spawn' = [task |-> slot, free |-> user_free, mallocs |-> 0]
    /\ ret' = NoCall
    /\ UNCHANGED <<draft, fs_vars, load, ext_vars, arena_vars, current_task, running, now_ms>>

\* mimic_task_load, second half: mimic_load_binary and what follows it
TaskLoadEnd(priority, total_size, fault) ==
    /\ pc.op = "load"
    /\ LET t == pc.task
           r == mimic_load_binary(draft, user_blocks, user_free, total_frees,
                                  t, total_size, fault)
       IN  /\ user_blocks' = r.mem.blocks
           /\ user_free' = r.mem.free_bytes
           /\ total_frees' = r.mem.frees
           /\ IF r.err # MIMIC_OK
              THEN /\ tasks' = [tasks EXCEPT ![t].state = TASK_STATE_FREE]
                   /\ task_count' = CountDown(task_count)
                   /\ spawn' = NoSpawn
              ELSE /\ tasks' = [tasks EXCEPT ![t].priority = priority,
                                             ![t].state = TASK_STATE_READY]
                   /\ UNCHANGED <<task_count, spawn>>
    /\ pc' = Idle
    /\ UNCHANGED <<draft, fs_vars, load, ext_vars, mem_blocks, kernel_free, current_task, running, now_ms, ret>>

\* mimic_task_kill up to and including its first write.  Test-01 marks the
\* slot ZOMBIE; Alpha has no such state and frees the task's memory at once.
KillStart(task_id, op) ==
    IF task_id = 0 \/ task_id >= MIMIC_MAX_TASKS
    THEN UNCHANGED <<arena_vars, tasks, pc, spawn>>
    ELSE IF tasks[task_id].state = TASK_STATE_FREE
    THEN UNCHANGED <<arena_vars, tasks, pc, spawn>>
    ELSE /\ spawn' = IF task_id = spawn.task THEN spawn ELSE NoSpawn
         /\ IF draft = "Test01"
            THEN /\ tasks' = [tasks EXCEPT ![task_id].state = TASK_STATE_ZOMBIE]
                 /\ pc' = At(op, task_id, "zombie")
                 /\ UNCHANGED arena_vars
            ELSE LET r == mimic_task_free_all_memory(draft, user_blocks, user_free,
                                                     total_frees, task_id)
                 IN  /\ user_blocks' = r.blocks
                     /\ user_free' = r.free_bytes
                     /\ total_frees' = r.frees
                     /\ pc' = At(op, task_id, "freed")
                     /\ UNCHANGED <<mem_blocks, kernel_free, tasks>>

\* void mimic_task_kill(task_id), called from the shell
TaskKill(task_id) ==
    /\ pc = Idle
    /\ KillStart(task_id, "kill")
    /\ ret' = NoCall
    /\ UNCHANGED <<draft, fs_vars, load, ext_vars, task_count, current_task, running, now_ms>>

\* mimic_task_kill, Test-01: mimic_task_free_all_memory(task_id)
KillFreeAll ==
    /\ pc.op \in {"kill", "exit"}
    /\ pc.step = "zombie"
    /\ LET r == mimic_task_free_all_memory(draft, user_blocks, user_free,
                                           total_frees, pc.task)
       IN  /\ user_blocks' = r.blocks
           /\ user_free' = r.free_bytes
           /\ total_frees' = r.frees
    /\ pc' = At(pc.op, pc.task, "freed")
    /\ UNCHANGED <<draft, fs_vars, load, ext_vars, mem_blocks, kernel_free, tasks, task_count, current_task,
                   running, now_ms, ret, spawn>>

\* mimic_task_kill: task->state = TASK_STATE_FREE; kernel.task_count--
KillEnd ==
    /\ pc.op \in {"kill", "exit"}
    /\ pc.step = "freed"
    /\ tasks' = [tasks EXCEPT ![pc.task].state = TASK_STATE_FREE]
    /\ task_count' = CountDown(task_count)
    /\ pc' = Idle
    /\ spawn' = IF pc.task = spawn.task THEN NoSpawn ELSE spawn
    /\ UNCHANGED <<draft, fs_vars, load, ext_vars, arena_vars, current_task, running, now_ms, ret>>

\* One pass of the loop of mimic_kernel_run: scheduler_tick()
SchedulerTick ==
    /\ pc = Idle
    /\ running
    /\ LET r == scheduler_tick(tasks, current_task, now_ms, running)
       IN  /\ tasks' = r.tasks
           /\ current_task' = r.current_task
    /\ ret' = NoCall
    /\ UNCHANGED <<draft, fs_vars, load, ext_vars, arena_vars, task_count, running, now_ms, pc, spawn>>

\* time_us_64() moves on
AdvanceTime ==
    /\ pc = Idle
    /\ now_ms < MaxTime
    /\ now_ms' = now_ms + 1
    /\ UNCHANGED <<draft, fs_vars, load, ext_vars, arena_vars, tasks, task_count, current_task, running, pc,
                   ret, spawn>>

\* ---------------------------------------------------------------- syscalls
\* mimic_syscall is entered by the task that is executing: the loop of
\* mimic_kernel_run lets a task execute only if
\* current->id != 0 && current->state == TASK_STATE_RUNNING.
CanSyscall ==
    /\ pc = Idle
    /\ current_task # 0
    /\ tasks[current_task].state = TASK_STATE_RUNNING

\* case MIMIC_SYS_EXIT: mimic_task_kill(task_id); return 0;
SysExit ==
    /\ CanSyscall
    /\ KillStart(current_task, "exit")
    /\ ret' = NoCall
    /\ UNCHANGED <<draft, fs_vars, load, ext_vars, task_count, current_task, running, now_ms>>

\* case MIMIC_SYS_YIELD: mimic_task_yield(), that is scheduler_tick()
SysYield ==
    /\ CanSyscall
    /\ LET r == scheduler_tick(tasks, current_task, now_ms, running)
       IN  /\ tasks' = r.tasks
           /\ current_task' = r.current_task
    /\ ret' = NoCall
    /\ UNCHANGED <<draft, fs_vars, load, ext_vars, arena_vars, task_count, running, now_ms, pc, spawn>>

\* a sleep that does not turn the kernel away
task_sleep_any(ts, cur, now, run, ms) ==
    scheduler_tick([ts EXCEPT ![cur].wake_time = (now + ms) % SIZE_T,
                              ![cur].state = TASK_STATE_SLEEPING],
                   cur, now, run)

\* mimic_task_sleep: wake_time is a uint32_t
mimic_task_sleep(ts, cur, now, run, ms) ==
    IF cur = 0 THEN [tasks |-> ts, current_task |-> cur]
    ELSE scheduler_tick([ts EXCEPT ![cur].wake_time = (now + ms) % SIZE_T,
                                   ![cur].state = TASK_STATE_SLEEPING],
                        cur, now, run)

SleepTimes == {0, 1}

\* case MIMIC_SYS_SLEEP: mimic_task_sleep(a0)
SysSleep(ms) ==
    /\ CanSyscall
    /\ LET r == mimic_task_sleep(tasks, current_task, now_ms, running, ms)
       IN  /\ tasks' = r.tasks
           /\ current_task' = r.current_task
    /\ ret' = NoCall
    /\ UNCHANGED <<draft, fs_vars, load, ext_vars, arena_vars, task_count, running, now_ms, pc, spawn>>

\* case MIMIC_SYS_MALLOC: return mimic_umalloc(task_id, a0)
SysMalloc(size) ==
    /\ CanSyscall
    /\ LET r == mem_alloc_from_pool(user_blocks, user_free, size, current_task,
                                    MIMIC_MAX_MEM_BLOCKS)
       IN  /\ user_blocks' = r.blocks
           /\ user_free' = r.free_bytes
           /\ ret' = Call("umalloc", size, r.result)
           /\ spawn' = IF r.result = NULL THEN spawn
                       ELSE IF current_task # spawn.task THEN NoSpawn
                       ELSE IF spawn.mallocs < MallocsWanted
                            THEN [spawn EXCEPT !.mallocs = @ + 1]
                            ELSE spawn
    /\ UNCHANGED <<draft, fs_vars, load, ext_vars, mem_blocks, kernel_free, total_frees, tasks, task_count,
                   current_task, running, now_ms, pc>>

\* case MIMIC_SYS_FREE: mimic_ufree(task_id, a0)
SysFree(ptr) ==
    /\ CanSyscall
    /\ LET r == mimic_ufree(draft, user_blocks, user_free, total_frees,
                            current_task, ptr)
       IN  /\ user_blocks' = r.blocks
           /\ user_free' = r.free_bytes
           /\ total_frees' = r.frees
           /\ spawn' = IF r.blocks = user_blocks THEN spawn ELSE NoSpawn
    /\ ret' = NoCall
    /\ UNCHANGED <<draft, fs_vars, load, ext_vars, mem_blocks, kernel_free, tasks, task_count, current_task,
                   running, now_ms, pc>>

\* ------------------------------------------------------------------ loader
\* int mimic_validate_header(hdr)
mimic_validate_header(d, hdr) ==
    IF d = "Test01"
    THEN IF hdr.magic # MIMI_MAGIC THEN MIMIC_ERR_CORRUPT
         ELSE IF hdr.version # MIMI_VERSION THEN MIMIC_ERR_INVAL
         ELSE IF hdr.arch \notin TargetArchs THEN MIMIC_ERR_NOEXEC
         ELSE IF hdr.text_size = 0 THEN MIMIC_ERR_INVAL
         ELSE IF hdr.entry_offset >= hdr.text_size THEN MIMIC_ERR_INVAL
         ELSE MIMIC_OK
    ELSE IF hdr.magic # MIMI_MAGIC THEN MIMIC_ERR_NOEXEC
         ELSE IF hdr.version # MIMI_VERSION THEN MIMIC_ERR_NOEXEC
         ELSE IF hdr.arch \notin TargetArchs THEN MIMIC_ERR_NOEXEC
         ELSE MIMIC_OK

\* mimic_load_binary: stack_size, heap_size and total_size, all uint32_t
LoadStackSize(hdr) == IF hdr.stack_request # 0 THEN hdr.stack_request ELSE DefaultStack
LoadHeapSize(hdr) == IF hdr.heap_request # 0 THEN hdr.heap_request ELSE DefaultHeap
LoadTotalSize(hdr) ==
    AlignUp((hdr.text_size + hdr.rodata_size + hdr.data_size + hdr.bss_size
             + LoadStackSize(hdr) + LoadHeapSize(hdr)) % SIZE_T)

\* mimic_load_binary: task->mem, the offsets being uint32_t
LoadLayout(hdr, base) ==
    LET rodata_start == hdr.text_size
        data_start   == (rodata_start + hdr.rodata_size) % SIZE_T
        bss_start    == (data_start + hdr.data_size) % SIZE_T
        sections_end == (bss_start + hdr.bss_size) % SIZE_T
    IN  [base |-> base, total_size |-> LoadTotalSize(hdr),
         text_start |-> 0, text_size |-> hdr.text_size,
         rodata_start |-> rodata_start, rodata_size |-> hdr.rodata_size,
         data_start |-> data_start, data_size |-> hdr.data_size,
         bss_start |-> bss_start, bss_size |-> hdr.bss_size,
         heap_start |-> sections_end, heap_size |-> LoadHeapSize(hdr),
         stack_top |-> LoadTotalSize(hdr), stack_size |-> LoadStackSize(hdr)]

\* The section whose mimic_fread comes back short, if the loader reads it:
\* Test-01 always reads .text, Alpha reads it if text_size > 0; both read
\* .rodata and .data only if they are not empty.
SectionFault(d, hdr, fault) ==
    \/ fault = "text" /\ (d = "Test01" \/ hdr.text_size > 0)
    \/ fault = "rodata" /\ hdr.rodata_size > 0
    \/ fault = "data" /\ hdr.data_size > 0

\* What mimic_load_binary hands back to mimic_task_load
Loaded(kblocks, kfree_bytes, mem, err, layout) ==
    [kblocks |-> kblocks, kfree_bytes |-> kfree_bytes, mem |-> mem, err |-> err,
     layout |-> layout]

load_keeping_image(d, k, mem, task_id, base, err) ==
    Loaded(k.blocks, k.free_bytes, [mem EXCEPT !.frees = k.frees], err, NoLayout)

\* mimic_load_binary, Test-01, a failure after mimic_kfree(symtab): the image
\* is given back with mimic_ufree(task->id, base); k is the kernel pool after
\* the kfree
LoadFreeImage(d, k, mem, task_id, base, err) ==
    Loaded(k.blocks, k.free_bytes,
           mimic_ufree(d, mem.blocks, mem.free_bytes, k.frees, task_id, base),
           err, NoLayout)

\* mimic_load_binary, Test-01, the relocations applied: mimic_kfree(symtab)
\* has left the kernel pool k
LoadRelocated(k, mem, hdr, base) ==
    Loaded(k.blocks, k.free_bytes, [mem EXCEPT !.frees = k.frees], MIMIC_OK,
           LoadLayout(hdr, base))

\* mimic_load_binary, Test-01, from symtab = mimic_kmalloc(...) on; s is what
\* the kernel pool answered.  The relocations of the images loaded here patch
\* words inside their sections.
LoadSymtab(d, s, mem, task_id, hdr, base, fault) ==
    IF s.result = NULL
    THEN Loaded(s.blocks, s.free_bytes,
                mimic_ufree(d, mem.blocks, mem.free_bytes, mem.frees, task_id, base),
                MIMIC_ERR_NOMEM, NoLayout)
    ELSE IF fault \in {"symtab", "reloc"}
    THEN LoadFreeImage(d, mem_free_in_pool(s.blocks, s.free_bytes, mem.frees, s.result),
                       mem, task_id, base, MIMIC_ERR_CORRUPT)
    ELSE LoadRelocated(mem_free_in_pool(s.blocks, s.free_bytes, mem.frees, s.result),
                       mem, hdr, base)

\* mimic_load_binary from "if (hdr.reloc_count > 0)" on.  Alpha has no symbol
\* table and leaves its relocation loop at the first short read.
LoadRelocations(d, kblocks, kfree_bytes, mem, task_id, hdr, base, fault) ==
    IF d # "Test01" \/ hdr.reloc_count = 0
    THEN Loaded(kblocks, kfree_bytes, mem, MIMIC_OK, LoadLayout(hdr, base))
    ELSE IF hdr.symbol_count > 0
    THEN LoadSymtab(d, mem_alloc_from_pool(kblocks, kfree_bytes,
                                           (hdr.symbol_count * SymbolBytes) % SIZE_T,
                                           0, MIMIC_MAX_MEM_BLOCKS),
                    mem, task_id, hdr, base, fault)
    ELSE IF fault = "reloc"
    THEN Loaded(kblocks, kfree_bytes,
                mimic_ufree(d, mem.blocks, mem.free_bytes, mem.frees, task_id, base),
                MIMIC_ERR_CORRUPT, NoLayout)
    ELSE Loaded(kblocks, kfree_bytes, mem, MIMIC_OK, LoadLayout(hdr, base))

\* mimic_load_binary from the allocation of the image on; r is what the
\* allocation and the section reads have left
LoadSections(d, kblocks, kfree_bytes, r, task_id, hdr, fault) ==
    IF r.err # MIMIC_OK
    THEN Loaded(kblocks, kfree_bytes, r.mem, r.err, NoLayout)
    ELSE LoadRelocations(d, kblocks, kfree_bytes, r.mem, task_id, hdr, r.base, fault)

\* int mimic_load_binary(path, task) for the image of header hdr.  fault names
\* the step at which the file fails: "open" (mimic_fopen), "header" (the read
\* of the header), "text", "rodata", "data" (the read of a section), "symtab",
\* "reloc" (the read of the symbol table, of a relocation), "none".
LoadProgram(d, kblocks, kfree_bytes, blocks, free_bytes, frees, task_id, hdr, fault) ==
    IF fault = "open"
    THEN Loaded(kblocks, kfree_bytes,
                [blocks |-> blocks, free_bytes |-> free_bytes, frees |-> frees],
                MIMIC_ERR_NOENT, NoLayout)
    ELSE IF fault = "header"
    THEN Loaded(kblocks, kfree_bytes,
                [blocks |-> blocks, free_bytes |-> free_bytes, frees |-> frees],
                MIMIC_ERR_CORRUPT, NoLayout)
    ELSE IF mimic_validate_header(d, hdr) # MIMIC_OK
    THEN Loaded(kblocks, kfree_bytes,
                [blocks |-> blocks, free_bytes |-> free_bytes, frees |-> frees],
                mimic_validate_header(d, hdr), NoLayout)
    ELSE LoadSections(d, kblocks, kfree_bytes,
                      mimic_load_binary(d, blocks, free_bytes, frees, task_id,
                                        LoadTotalSize(hdr),
                                        IF SectionFault(d, hdr, fault)
                                        THEN "read" ELSE "none"),
                      task_id, hdr, fault)

\* The images the shell is asked to run: PlainImage and images that differ
\* from it in one respect
BigHeap == SIZE_T - MIMIC_MEM_ALIGN
ManySymbols == KernelGranules + 2
LoadHeaders ==
    {PlainImage,
     [PlainImage EXCEPT !.magic = 0],
     [PlainImage EXCEPT !.version = 2],
     [PlainImage EXCEPT !.arch = MIMI_ARCH_CORTEX_M33],
     [PlainImage EXCEPT !.text_size = 0],
     [PlainImage EXCEPT !.entry_offset = MIMIC_MEM_ALIGN],
     [PlainImage EXCEPT !.entry_offset = MIMIC_MEM_ALIGN + 1],
     [PlainImage EXCEPT !.entry_offset = MIMIC_MEM_ALIGN - 1],
     [PlainImage EXCEPT !.stack_request = 0, !.heap_request = 0],
     [PlainImage EXCEPT !.rodata_size = 8, !.data_size = 8, !.bss_size = 8],
     [PlainImage EXCEPT !.heap_request = BigHeap],
     [PlainImage EXCEPT !.heap_request = MIMIC_USER_HEAP],
     [PlainImage EXCEPT !.reloc_count = 1],
     [PlainImage EXCEPT !.reloc_count = 1, !.symbol_count = 1],
     [PlainImage EXCEPT !.reloc_count = 1, !.symbol_count = ManySymbols]}
ImageFaults == {"none", "open", "header", "text", "rodata", "data", "symtab", "reloc"}

\* The blocks of a pool that are allocated: address and owner
LiveBlocks(blocks) ==
    {<<blocks[i].addr, blocks[i].task_id>> : i \in {j \in 1..Len(blocks) : ~blocks[j].free}}

\* int mimic_task_load(path, priority), after task_alloc has given slot t and
\* mimic_load_binary has come back with r
TaskLoaded(t, priority, hdr, fault, r) ==
    /\ mem_blocks' = r.kblocks
    /\ kernel_free' = r.kfree_bytes
    /\ user_blocks' = r.mem.blocks
    /\ user_free' = r.mem.free_bytes
    /\ total_frees' = r.mem.frees
    /\ IF r.err # MIMIC_OK
       THEN /\ tasks' = [tasks EXCEPT ![t] = [AllocatedTCB(draft, @) EXCEPT
                                                !.state = TASK_STATE_FREE]]
            /\ task_count' = CountDown(CountUp(task_count))
       ELSE /\ tasks' = [tasks EXCEPT ![t] = [AllocatedTCB(draft, @) EXCEPT
                                                !.priority = priority,
                                                !.state = TASK_STATE_READY]]
            /\ task_count' = CountUp(task_count)
    /\ load' = [task |-> t, hdr |-> hdr, fault |-> fault, err |-> r.err,
                layout |-> r.layout, count_before |-> task_count,
                free_before |-> user_free, live_before |-> LiveBlocks(user_blocks)]
    /\ ret' = Call("task_load", t, r.err)

\* int mimic_task_load(path, priority) as the shell calls it: task_alloc,
\* mimic_load_binary, and the TCB made READY or given back
TaskLoad(priority, hdr, fault) ==
    /\ pc = Idle
    /\ IF task_alloc(tasks) = 0
       THEN /\ load' = [NoLoad EXCEPT !.hdr = hdr, !.fault = fault,
                                      !.err = MIMIC_ERR_NOMEM,
                                      !.count_before = task_count,
                                      !.free_before = user_free,
                                      !.live_before = LiveBlocks(user_blocks)]
            /\ ret' = Call("task_load", 0, MIMIC_ERR_NOMEM)
            /\ UNCHANGED <<arena_vars, tasks, task_count>>
       ELSE TaskLoaded(task_alloc(tasks), priority, hdr, fault,
                       LoadProgram(draft, mem_blocks, kernel_free, user_blocks,
                                   user_free, total_frees, task_alloc(tasks),
                                   hdr, fault))
    /\ spawn' = NoSpawn
    /\ UNCHANGED <<draft, fs_vars, ext_vars, current_task, running, now_ms, pc>>

\* void mimic_task_sleep(ms) called by whatever runs: a RUNNING program, or
\* the kernel itself while slot 0 is current
TaskSleep(ms) ==
    /\ pc = Idle
    /\ current_task = 0 \/ tasks[current_task].state = TASK_STATE_RUNNING
    /\ LET r == mimic_task_sleep(tasks, current_task, now_ms, running, ms)
       IN  /\ tasks' = r.tasks
           /\ current_task' = r.current_task
    /\ ret' = Call("sleep", current_task, ms)
    /\ UNCHANGED <<draft, fs_vars, load, ext_vars, arena_vars, task_count,
                   running, now_ms, pc, spawn>>

\* -------------------------------------------------------- specifications
\* Each specification is the kernel under one set of callers.

\* Programs of two priorities are loaded, yield and sleep; the scheduler ticks
\* and the clock advances.
NextSched ==
    \/ KernelRun
    \/ TaskLoadBegin
    \/ \E p \in LoadPrios, n \in LoadSizes, f \in LoadFaults : TaskLoadEnd(p, n, f)
    \/ SchedulerTick
    \/ AdvanceTime
    \/ SysYield
    \/ \E ms \in SleepTimes : SysSleep(ms)

SpecSched == Init /\ [][NextSched]_vars

\* Programs are loaded and yield, and the loop of mimic_kernel_run never
\* ceases to tick.
NextFair ==
    \/ KernelRun
    \/ TaskLoadBegin
    \/ \E p \in LoadPrios, n \in LoadSizes, f \in LoadFaults : TaskLoadEnd(p, n, f)
    \/ SchedulerTick
    \/ SysYield

SpecFair == Init /\ [][NextFair]_vars /\ WF_vars(SchedulerTick)

\* Programs are loaded, killed from the shell and exit.
NextKill ==
    \/ KernelRun
    \/ TaskLoadBegin
    \/ \E n \in LoadSizes, f \in LoadFaults : TaskLoadEnd(SHELL_PRIORITY, n, f)
    \/ \E t \in 0..MIMIC_MAX_TASKS : TaskKill(t)
    \/ KillFreeAll
    \/ KillEnd
    \/ SchedulerTick
    \/ SysExit

SpecKill == Init /\ [][NextKill]_vars

\* At most MemTasks programs at a time are loaded; they and the kernel sleep,
\* are killed (slot 0 and slots out of range among the targets) and exit.
NextIdle ==
    \/ KernelRun
    \/ (Cardinality({i \in UserSlots : tasks[i].state # TASK_STATE_FREE}) < MemTasks
        /\ TaskLoadBegin)
    \/ \E n \in LoadSizes : TaskLoadEnd(SHELL_PRIORITY, n, "none")
    \/ \E t \in 0..MIMIC_MAX_TASKS : TaskKill(t)
    \/ KillFreeAll
    \/ KillEnd
    \/ SchedulerTick
    \/ AdvanceTime
    \/ SysExit
    \/ \E ms \in SleepTimes : TaskSleep(ms)

SpecIdle == Init /\ [][NextIdle]_vars

\* At most MemTasks programs at a time are loaded; they allocate and free user
\* memory, are killed and exit.
LoadedTasks == Cardinality({i \in UserSlots : tasks[i].state # TASK_STATE_FREE})

NextTaskMem ==
    \/ KernelRun
    \/ (LoadedTasks < MemTasks /\ TaskLoadBegin)
    \/ \E n \in LoadSizes : TaskLoadEnd(SHELL_PRIORITY, n, "none")
    \/ \E t \in UserSlots : TaskKill(t)
    \/ KillFreeAll
    \/ KillEnd
    \/ SchedulerTick
    \/ SysExit
    \/ \E n \in TaskAllocSizes : SysMalloc(n)
    \/ \E p \in UserPtrs : SysFree(p)

SpecTaskMem == Init /\ [][NextTaskMem]_vars

\* Images of every kind are run from the shell, with the file failing at any
\* step, until the task table or the user arena is full.
NextLoad ==
    \E hdr \in LoadHeaders, f \in ImageFaults : TaskLoad(SHELL_PRIORITY, hdr, f)

SpecLoad == Init /\ [][NextLoad]_vars

\* ------------------------------------------------- FAT32 internal helpers
\* Each step of a routine that goes on from the result of a call is an
\* operator of its own, taking that result as an argument.

\* mimic_sd_write_sector of the cached sector; the card refuses a sector
\* beyond its end
fat32_flush_cache(v) ==
    IF ~v.cache_dirty THEN [vol |-> v, err |-> MIMIC_OK]
    ELSE IF v.cached_sector \notin Sectors THEN [vol |-> v, err |-> MIMIC_ERR_IO]
    ELSE [vol |-> [v EXCEPT !.disk[v.cached_sector] = v.sector_buf,
                            !.cache_dirty = FALSE],
          err |-> MIMIC_OK]

\* fat32_read_sector after its write-back fl: mimic_sd_read_sector
SdRead(fl, sector) ==
    IF fl.err # MIMIC_OK THEN fl
    ELSE IF sector \notin Sectors THEN [vol |-> fl.vol, err |-> MIMIC_ERR_IO]
    ELSE [vol |-> [fl.vol EXCEPT !.sector_buf = fl.vol.disk[sector],
                                 !.cached_sector = sector],
          err |-> MIMIC_OK]

\* fat32_read_sector without the write-back of a dirty buffer
read_sector_discarding(v, sector) ==
    IF v.cached_sector = sector THEN [vol |-> v, err |-> MIMIC_OK]
    ELSE SdRead([vol |-> v, err |-> MIMIC_OK], sector)

fat32_read_sector(v, sector) ==
    IF v.cached_sector = sector THEN [vol |-> v, err |-> MIMIC_OK]
    ELSE SdRead(fat32_flush_cache(v), sector)

fat32_cache_dirty(v) == [v EXCEPT !.cache_dirty = TRUE]

\* uint32_t arithmetic: a cluster below 2 wraps to a sector beyond the card
fat32_cluster_to_sector(cluster) ==
    (data_start_sector + ((cluster - 2) % UINT32) * sectors_per_cluster) % UINT32

\* the sector and the cell of the FAT entry of a cluster
FatSector(cluster) == fat_start_sector + (cluster \div SectorCells)
FatOffset(cluster) == cluster % SectorCells

\* fat32_get_fat_entry after its read r
FatValue(r, offset) ==
    IF r.err # MIMIC_OK THEN [vol |-> r.vol, value |-> FAT32_EOC]
    ELSE [vol |-> r.vol,
          value |-> r.vol.sector_buf[offset] % (FAT_ENTRY_MASK + 1)]

fat32_get_fat_entry(v, cluster) ==
    FatValue(fat32_read_sector(v, FatSector(cluster)), FatOffset(cluster))

\* fat32_set_fat_entry after its read r: the top four bits of the entry stay
FatStore(r, offset, value) ==
    IF r.err # MIMIC_OK THEN [vol |-> r.vol, err |-> MIMIC_ERR_IO]
    ELSE [vol |-> fat32_cache_dirty(
                    [r.vol EXCEPT !.sector_buf[offset] =
                        (@ \div (FAT_ENTRY_MASK + 1)) * (FAT_ENTRY_MASK + 1)
                        + (value % (FAT_ENTRY_MASK + 1))]),
          err |-> MIMIC_OK]

fat32_set_fat_entry(v, cluster, value) ==
    FatStore(fat32_read_sector(v, FatSector(cluster)), FatOffset(cluster), value)

\* the loop of fat32_alloc_cluster from cluster c on; g is the entry of c
RECURSIVE AllocScan(_, _)
AllocStep(g, c) ==
    IF g.value = FAT32_FREE
    THEN [vol |-> fat32_set_fat_entry(g.vol, c, FAT32_EOC).vol, cluster |-> c]
    ELSE AllocScan(g.vol, c + 1)

AllocScan(v, c) ==
    IF c >= total_clusters + 2 THEN [vol |-> v, cluster |-> 0]
    ELSE AllocStep(fat32_get_fat_entry(v, c), c)

fat32_alloc_cluster(v) == AllocScan(v, 2)

\* the directory entry e of the cached sector
DirEntry(buf, e) ==
    [name |-> buf[e * DirEntryCells],
     fst_clus_hi |-> buf[e * DirEntryCells + 1],
     fst_clus_lo |-> buf[e * DirEntryCells + 2],
     file_size |-> buf[e * DirEntryCells + 3]]

NoEntry == [name |-> 0, fst_clus_hi |-> 0, fst_clus_lo |-> 0, file_size |-> 0]

PutDirEntry(buf, e, entry) ==
    [c \in Cells |->
        IF c = e * DirEntryCells THEN entry.name
        ELSE IF c = e * DirEntryCells + 1 THEN entry.fst_clus_hi
        ELSE IF c = e * DirEntryCells + 2 THEN entry.fst_clus_lo
        ELSE IF c = e * DirEntryCells + 3 THEN entry.file_size
        ELSE buf[c]]

Min(S) == CHOOSE x \in S : \A y \in S : x <= y

\* a cluster chain that is still being followed after ChainFuel steps has
\* come back to a cluster it has visited: the loop following it never ends
ChainFuel == FatSectors * SectorCells + 1
HANG == -100

\* upper case, padded name: the two spellings name the same file
Paths == {"a.txt", "A.TXT"}
fat32_name_to_83(name) == IF name \in {"a.txt", "A.TXT"} THEN 65 ELSE 66

\* the entries of a directory sector fat32_create_file may take
FreeEntries(buf) ==
    {e \in 0..(EntriesPerSector - 1) :
        DirEntry(buf, e).name \in {DIR_NAME_UNUSED, DIR_NAME_DELETED}}

CreateFail(v, e) ==
    [vol |-> v, err |-> e, entry |-> NoEntry, dir_cluster |-> 0, dir_entry_idx |-> 0]

\* fat32_create_file writing the new entry into entry e of the cached sector
CreateAt(v, name83, cur_cluster, entry_idx, e) ==
    [vol |-> fat32_flush_cache(fat32_cache_dirty(
                [v EXCEPT !.sector_buf =
                    PutDirEntry(@, e, [NoEntry EXCEPT !.name = name83])])).vol,
     err |-> MIMIC_OK,
     entry |-> [NoEntry EXCEPT !.name = name83],
     dir_cluster |-> cur_cluster,
     dir_entry_idx |-> entry_idx + e]

\* fat32_create_file from sector s of directory cluster cur_cluster on
RECURSIVE CreateScan(_, _, _, _, _, _)
CreateNext(g, name83, entry_idx, fuel) ==
    IF fuel = 0 THEN CreateFail(g.vol, HANG)
    ELSE CreateScan(g.vol, name83, g.value, 0, entry_idx, fuel - 1)

CreateInSector(r, name83, cur_cluster, s, entry_idx, fuel) ==
    IF r.err # MIMIC_OK THEN CreateFail(r.vol, MIMIC_ERR_IO)
    ELSE IF FreeEntries(r.vol.sector_buf) = {}
    THEN CreateScan(r.vol, name83, cur_cluster, s + 1,
                    entry_idx + EntriesPerSector, fuel)
    ELSE CreateAt(r.vol, name83, cur_cluster, entry_idx,
                  Min(FreeEntries(r.vol.sector_buf)))

CreateScan(v, name83, cur_cluster, s, entry_idx, fuel) ==
    IF cur_cluster = 0 \/ cur_cluster >= FAT32_EOC
    THEN CreateFail(v, MIMIC_ERR_NOMEM)
    ELSE IF s >= sectors_per_cluster
    THEN CreateNext(fat32_get_fat_entry(v, cur_cluster), name83, entry_idx, fuel)
    ELSE CreateInSector(
             fat32_read_sector(v, fat32_cluster_to_sector(cur_cluster) + s),
             name83, cur_cluster, s, entry_idx, fuel)

fat32_create_file(v, dir_cluster, name) ==
    CreateScan(v, fat32_name_to_83(name), dir_cluster, 0, 0, ChainFuel)

\* the entries of a directory sector that carry the name, none after an
\* entry that was never used
Matches(buf, name83) ==
    {e \in 0..(EntriesPerSector - 1) :
        /\ DirEntry(buf, e).name = name83
        /\ \A d \in 0..(e - 1) : DirEntry(buf, d).name # DIR_NAME_UNUSED}

ResolveFail(v, e) == [vol |-> v, err |-> e, cluster |-> 0, entry |-> NoEntry]

ResolveFound(v, entry) ==
    [vol |-> v, err |-> MIMIC_OK,
     cluster |-> (entry.fst_clus_hi * UINT16 + entry.fst_clus_lo) % UINT32,
     entry |-> entry]

\* the directory search of fat32_resolve_path from sector s of cur_cluster on
RECURSIVE ResolveScan(_, _, _, _, _)
ResolveNext(g, name83, fuel) ==
    IF fuel = 0 THEN ResolveFail(g.vol, HANG)
    ELSE ResolveScan(g.vol, name83, g.value, 0, fuel - 1)

ResolveInSector(r, name83, cur_cluster, s, fuel) ==
    IF r.err # MIMIC_OK THEN ResolveFail(r.vol, MIMIC_ERR_IO)
    ELSE IF Matches(r.vol.sector_buf, name83) = {}
    THEN ResolveScan(r.vol, name83, cur_cluster, s + 1, fuel)
    ELSE ResolveFound(r.vol, DirEntry(r.vol.sector_buf,
                                      Min(Matches(r.vol.sector_buf, name83))))

ResolveScan(v, name83, cur_cluster, s, fuel) ==
    IF cur_cluster >= FAT32_EOC THEN ResolveFail(v, MIMIC_ERR_NOENT)
    ELSE IF s >= sectors_per_cluster
    THEN ResolveNext(fat32_get_fat_entry(v, cur_cluster), name83, fuel)
    ELSE ResolveInSector(
             fat32_read_sector(v, fat32_cluster_to_sector(cur_cluster) + s),
             name83, cur_cluster, s, fuel)

\* a path of one component, looked up in the root directory
fat32_resolve_path(v, path) ==
    ResolveScan(v, fat32_name_to_83(path), root_cluster, 0, ChainFuel)

\* -------------------------------------------------------- file operations
\* the cluster walk of mimic_fseek: i clusters skipped of n
RECURSIVE SeekSkip(_, _, _, _)
SeekNext(g, i, n) == SeekSkip(g.vol, g.value, i + 1, n)

SeekSkip(v, cluster, i, n) ==
    IF i >= n \/ cluster >= FAT32_EOC THEN [vol |-> v, cluster |-> cluster]
    ELSE SeekNext(fat32_get_fat_entry(v, cluster), i, n)

\* File sizes, positions and seek offsets are 32 bits wide in the source and
\* OffsetBits wide here.
OffsetBits == 5
OFF_T == 2 ^ OffsetBits
INT32_MAX == (OFF_T \div 2) - 1

\* (int32_t)x of a uint32_t x
int32_t(x) == IF x % OFF_T >= OFF_T \div 2 THEN (x % OFF_T) - OFF_T ELSE x % OFF_T

\* new_pos of mimic_fseek: an int32_t, compared with (int32_t)f->file_size
\* and stored into the uint32_t f->position
SeekCompared(f, new_pos) ==
    (IF new_pos > int32_t(f.file_size) THEN f.file_size ELSE new_pos) % OFF_T

SeekTarget(f, offset, whence) ==
    LET raw == IF whence = MIMIC_SEEK_SET THEN offset
               ELSE IF whence = MIMIC_SEEK_CUR THEN int32_t(f.position + offset)
               ELSE int32_t(f.file_size + offset)
    IN  SeekCompared(f, IF raw < 0 THEN 0 ELSE raw)

SeekDone(sk, f, new_pos) ==
    [vol |-> sk.vol,
     file |-> [f EXCEPT !.position = new_pos,
                        !.current_cluster = sk.cluster,
                        !.cluster_offset = new_pos % bytes_per_cluster]]

SeekTo(v, f, new_pos) ==
    SeekDone(SeekSkip(v, f.first_cluster, 0, new_pos \div bytes_per_cluster),
             f, new_pos)

\* mimic_fseek on an open handle f
mimic_fseek(v, f, offset, whence) == SeekTo(v, f, SeekTarget(f, offset, whence))

\* mimic_fopen from the filled handle on: append, truncate, return fd
OpenDone(sk, fs, fd, mode) ==
    [vol |-> sk.vol,
     files |-> [fs EXCEPT ![fd] = IF HasFlag(mode, MIMIC_FILE_TRUNC)
                                  THEN [sk.file EXCEPT !.file_size = 0]
                                  ELSE sk.file],
     ret |-> fd]

OpenSeek(v, fs, fd, mode, f) ==
    IF HasFlag(mode, MIMIC_FILE_APPEND)
    THEN OpenDone(mimic_fseek(v, f, 0, MIMIC_SEEK_END), fs, fd, mode)
    ELSE OpenDone([vol |-> v, file |-> f], fs, fd, mode)

OpenHandle(v, fs, fd, mode, entry, first, dir_cluster, dir_entry_idx) ==
    OpenSeek(v, fs, fd, mode,
             [ClosedFile EXCEPT !.dir_cluster = dir_cluster,
                                !.dir_entry_idx = dir_entry_idx,
                                !.first_cluster = first,
                                !.open = TRUE,
                                !.mode = mode,
                                !.file_size = entry.file_size,
                                !.current_cluster = first])

\* a failed mimic_fopen leaves the handle it took zeroed
OpenFail(v, fs, fd, e) ==
    [vol |-> v, files |-> [fs EXCEPT ![fd] = ClosedFile], ret |-> e]

OpenCreated(c, fs, fd, mode) ==
    IF c.err # MIMIC_OK THEN OpenFail(c.vol, fs, fd, c.err)
    ELSE OpenHandle(c.vol, fs, fd, mode, c.entry, 0, c.dir_cluster, c.dir_entry_idx)

OpenResolved(r, fs, fd, path, mode) ==
    IF r.err = MIMIC_ERR_NOENT /\ HasFlag(mode, MIMIC_FILE_CREATE)
    THEN OpenCreated(fat32_create_file(r.vol, root_cluster, path), fs, fd, mode)
    ELSE IF r.err # MIMIC_OK THEN OpenFail(r.vol, fs, fd, r.err)
    ELSE OpenHandle(r.vol, fs, fd, mode, r.entry, r.cluster, 0, 0)

FreeHandles(fs) == {i \in Fds : ~fs[i].open}

mimic_fopen(v, fs, path, mode) ==
    IF FreeHandles(fs) = {} THEN [vol |-> v, files |-> fs, ret |-> MIMIC_ERR_NOMEM]
    ELSE OpenResolved(fat32_resolve_path(v, path), fs, Min(FreeHandles(fs)),
                      path, mode)

\* fat32_find_entry of Test-01 from sector s of cluster on: the search ends at
\* an entry that was never used
RECURSIVE FindScan(_, _, _, _, _)
FindNext(g, name83, fuel) ==
    IF fuel = 0 THEN ResolveFail(g.vol, HANG)
    ELSE FindScan(g.vol, name83, g.value, 0, fuel - 1)

FindInSector(r, name83, cluster, s, fuel) ==
    IF r.err # MIMIC_OK THEN ResolveFail(r.vol, MIMIC_ERR_IO)
    ELSE IF Matches(r.vol.sector_buf, name83) # {}
    THEN ResolveFound(r.vol, DirEntry(r.vol.sector_buf,
                                      Min(Matches(r.vol.sector_buf, name83))))
    ELSE IF \E e \in 0..(EntriesPerSector - 1) :
               DirEntry(r.vol.sector_buf, e).name = DIR_NAME_UNUSED
    THEN ResolveFail(r.vol, MIMIC_ERR_NOENT)
    ELSE FindScan(r.vol, name83, cluster, s + 1, fuel)

FindScan(v, name83, cluster, s, fuel) ==
    IF cluster = 0 \/ cluster >= FAT32_EOC THEN ResolveFail(v, MIMIC_ERR_NOENT)
    ELSE IF s >= sectors_per_cluster
    THEN FindNext(fat32_get_fat_entry(v, cluster), name83, fuel)
    ELSE FindInSector(
             fat32_read_sector(v, fat32_cluster_to_sector(cluster) + s),
             name83, cluster, s, fuel)

\* fat32_find_entry(dir_cluster, name, &found, NULL, NULL) of Test-01
fat32_find_entry(v, dir_cluster, name) ==
    FindScan(v, fat32_name_to_83(name), dir_cluster, 0, ChainFuel)

\* mimic_fopen of Test-01 after fat32_resolve_path, which for a path of one
\* component is fat32_find_entry in the root directory: a file that does not
\* exist is not created
OpenResolved_Test01(r, fs, fd, mode) ==
    IF r.err = MIMIC_ERR_NOENT /\ HasFlag(mode, MIMIC_FILE_CREATE)
    THEN OpenFail(r.vol, fs, fd, MIMIC_ERR_NOSYS)
    ELSE IF r.err # MIMIC_OK THEN OpenFail(r.vol, fs, fd, r.err)
    ELSE OpenHandle(r.vol, fs, fd, mode, r.entry, r.cluster, 0, 0)

mimic_fopen_Test01(v, fs, path, mode) ==
    IF FreeHandles(fs) = {} THEN [vol |-> v, files |-> fs, ret |-> MIMIC_ERR_NOMEM]
    ELSE OpenResolved_Test01(fat32_find_entry(v, root_cluster, path), fs,
                             Min(FreeHandles(fs)), mode)

\* int mimic_fopen(path, mode) of the build
fopen_of_build(d, v, fs, path, mode) ==
    IF d = "Test01" THEN mimic_fopen_Test01(v, fs, path, mode)
    ELSE mimic_fopen(v, fs, path, mode)

\* the directory sector and the entry in it that mimic_fclose updates
DirSector(f) ==
    (fat32_cluster_to_sector(f.dir_cluster)
     + ((f.dir_entry_idx % (sectors_per_cluster * EntriesPerSector))
        \div EntriesPerSector)) % UINT32
DirSlot(f) ==
    (f.dir_entry_idx % (sectors_per_cluster * EntriesPerSector)) % EntriesPerSector

CloseUpdate(r, f) ==
    IF r.err # MIMIC_OK THEN r.vol
    ELSE fat32_cache_dirty(
           [r.vol EXCEPT !.sector_buf =
              PutDirEntry(@, DirSlot(f),
                 [DirEntry(@, DirSlot(f)) EXCEPT
                    !.file_size = f.file_size,
                    !.fst_clus_hi = (f.first_cluster \div UINT16) % UINT16,
                    !.fst_clus_lo = f.first_cluster % UINT16])])

CloseDone(v, fs, fd) ==
    [vol |-> fat32_flush_cache(v).vol,
     files |-> [fs EXCEPT ![fd].open = FALSE],
     ret |-> MIMIC_OK]

mimic_fclose(v, fs, fd) ==
    IF fd < 0 \/ fd >= MIMIC_MAX_FILES
    THEN [vol |-> v, files |-> fs, ret |-> MIMIC_ERR_INVAL]
    ELSE IF ~fs[fd].open THEN [vol |-> v, files |-> fs, ret |-> MIMIC_ERR_INVAL]
    ELSE IF HasFlag(fs[fd].mode, MIMIC_FILE_WRITE) /\ fs[fd].dir_cluster # 0
    THEN CloseDone(CloseUpdate(fat32_read_sector(v, DirSector(fs[fd])), fs[fd]),
                   fs, fd)
    ELSE CloseDone(v, fs, fd)

\* the sector under the position of f, and the position's cell in it
FileSector(f) ==
    (fat32_cluster_to_sector(f.current_cluster)
     + (f.cluster_offset \div SectorCells)) % UINT32
OffsetInSector(f) == f.cluster_offset % SectorCells

\* the loop of mimic_fread; Len(out) is bytes_read
RECURSIVE ReadLoop(_, _, _, _)
ReadNext(g, f, size, out) ==
    ReadLoop(g.vol, [f EXCEPT !.current_cluster = g.value, !.cluster_offset = 0],
             size, out)

\* n bytes copied out of the cached sector
ReadCopy(v, f, size, out, n) ==
    IF f.cluster_offset + n >= bytes_per_cluster
    THEN ReadNext(fat32_get_fat_entry(v, f.current_cluster),
                  [f EXCEPT !.position = @ + n, !.cluster_offset = @ + n],
                  size,
                  out \o [k \in 1..n |-> v.sector_buf[OffsetInSector(f) + k - 1]])
    ELSE ReadLoop(v, [f EXCEPT !.position = @ + n, !.cluster_offset = @ + n],
                  size,
                  out \o [k \in 1..n |-> v.sector_buf[OffsetInSector(f) + k - 1]])

ReadSector(r, f, size, out) ==
    IF r.err # MIMIC_OK
    THEN [vol |-> r.vol, file |-> f,
          ret |-> IF Len(out) > 0 THEN Len(out) ELSE MIMIC_ERR_IO, out |-> out]
    ELSE ReadCopy(r.vol, f, size, out,
                  Min({size - Len(out), SectorCells - OffsetInSector(f),
                       f.file_size - f.position}))

ReadLoop(v, f, size, out) ==
    IF ~(Len(out) < size /\ f.position < f.file_size)
    THEN [vol |-> v, file |-> f, ret |-> Len(out), out |-> out]
    ELSE IF f.current_cluster = 0 \/ f.current_cluster >= FAT32_EOC
    THEN [vol |-> v, file |-> f, ret |-> Len(out), out |-> out]
    ELSE ReadSector(fat32_read_sector(v, FileSector(f)), f, size, out)

ReadDone(r, fs, fd) ==
    [vol |-> r.vol, files |-> [fs EXCEPT ![fd] = r.file], ret |-> r.ret,
     out |-> r.out]

mimic_fread(v, fs, fd, size) ==
    IF fd < 0 \/ fd >= MIMIC_MAX_FILES
    THEN [vol |-> v, files |-> fs, ret |-> MIMIC_ERR_INVAL, out |-> <<>>]
    ELSE IF ~fs[fd].open
    THEN [vol |-> v, files |-> fs, ret |-> MIMIC_ERR_INVAL, out |-> <<>>]
    ELSE IF ~HasFlag(fs[fd].mode, MIMIC_FILE_READ)
    THEN [vol |-> v, files |-> fs, ret |-> MIMIC_ERR_PERM, out |-> <<>>]
    ELSE ReadDone(ReadLoop(v, fs[fd], size, <<>>), fs, fd)

\* the loop of mimic_fwrite; in is the caller's buffer
RECURSIVE WriteLoop(_, _, _, _, _)

\* the cluster of f is full and has no successor: a is the allocation
WriteExtended(a, f, in, size, bytes_written) ==
    IF a.cluster = 0
    THEN [vol |-> fat32_flush_cache(a.vol).vol, file |-> f, ret |-> bytes_written]
    ELSE WriteLoop(fat32_set_fat_entry(a.vol, f.current_cluster, a.cluster).vol,
                   [f EXCEPT !.current_cluster = a.cluster, !.cluster_offset = 0],
                   in, size, bytes_written)

\* the cluster of f is full: g is its FAT entry
WriteLinked(g, f, in, size, bytes_written) ==
    IF g.value < FAT32_EOC
    THEN WriteLoop(g.vol,
                   [f EXCEPT !.current_cluster = g.value, !.cluster_offset = 0],
                   in, size, bytes_written)
    ELSE WriteExtended(fat32_alloc_cluster(g.vol), f, in, size, bytes_written)

WriteAdvance(v, f, in, size, bytes_written) ==
    IF f.cluster_offset < bytes_per_cluster
    THEN WriteLoop(v, f, in, size, bytes_written)
    ELSE WriteLinked(fat32_get_fat_entry(v, f.current_cluster), f, in, size,
                     bytes_written)

BytesToCopy(f, size, bytes_written) ==
    Min({size - bytes_written, SectorCells - OffsetInSector(f)})

\* memcpy of n bytes of in, from bytes_written on, into the sector buffer
CopyIn(buf, offset_in_sector, in, bytes_written, n) ==
    [c \in Cells |->
        IF c >= offset_in_sector /\ c < offset_in_sector + n
        THEN in[bytes_written + (c - offset_in_sector) + 1]
        ELSE buf[c]]

\* the copy into the sector buffer and the advance of the handle by n bytes
WriteCopy(r, f, in, size, bytes_written, n) ==
    IF r.err # MIMIC_OK
    THEN [vol |-> r.vol, file |-> f,
          ret |-> IF bytes_written > 0 THEN bytes_written ELSE MIMIC_ERR_IO]
    ELSE WriteAdvance(
             fat32_cache_dirty(
                 [r.vol EXCEPT !.sector_buf =
                     CopyIn(@, OffsetInSector(f), in, bytes_written, n)]),
             [f EXCEPT !.position = @ + n,
                       !.cluster_offset = @ + n,
                       !.file_size = IF f.position + n > @ THEN f.position + n
                                     ELSE @],
             in, size, bytes_written + n)

\* the sector is read first only when it is not written as a whole
WriteSector(v, f, in, size, bytes_written) ==
    IF OffsetInSector(f) # 0 \/ (size - bytes_written) < SectorCells
    THEN WriteCopy(fat32_read_sector(v, FileSector(f)), f, in, size,
                   bytes_written, BytesToCopy(f, size, bytes_written))
    ELSE WriteCopy([vol |-> v, err |-> MIMIC_OK], f, in, size, bytes_written,
                   BytesToCopy(f, size, bytes_written))

\* f has no current cluster: a is the allocation
WriteAllocated(a, f, in, size, bytes_written) ==
    IF a.cluster = 0
    THEN [vol |-> a.vol, file |-> f,
          ret |-> IF bytes_written > 0 THEN bytes_written ELSE MIMIC_ERR_NOMEM]
    ELSE WriteSector(a.vol,
                     [f EXCEPT !.first_cluster = IF @ = 0 THEN a.cluster ELSE @,
                               !.current_cluster = a.cluster,
                               !.cluster_offset = 0],
                     in, size, bytes_written)

WriteLoop(v, f, in, size, bytes_written) ==
    IF bytes_written >= size
    THEN [vol |-> fat32_flush_cache(v).vol, file |-> f, ret |-> bytes_written]
    ELSE IF f.current_cluster = 0 \/ f.current_cluster >= FAT32_EOC
    THEN WriteAllocated(fat32_alloc_cluster(v), f, in, size, bytes_written)
    ELSE WriteSector(v, f, in, size, bytes_written)

WriteDone(r, fs, fd) ==
    [vol |-> r.vol, files |-> [fs EXCEPT ![fd] = r.file], ret |-> r.ret]

mimic_fwrite(v, fs, fd, in, size) ==
    IF fd < 0 \/ fd >= MIMIC_MAX_FILES
    THEN [vol |-> v, files |-> fs, ret |-> MIMIC_ERR_INVAL]
    ELSE IF ~fs[fd].open THEN [vol |-> v, files |-> fs, ret |-> MIMIC_ERR_INVAL]
    ELSE IF ~HasFlag(fs[fd].mode, MIMIC_FILE_WRITE)
    THEN [vol |-> v, files |-> fs, ret |-> MIMIC_ERR_PERM]
    ELSE WriteDone(WriteLoop(v, fs[fd], in, size, 0), fs, fd)

mimic_fflush(v, fd) == fat32_flush_cache(v)

\* ------------------------------------------------------- file API actions
\* Callers open for reading, for writing with creation, and for both; they
\* move one cell, a whole sector, and a sector and a cell.
OpenModes == {MIMIC_FILE_READ, MIMIC_FILE_WRITE + MIMIC_FILE_CREATE,
              MIMIC_FILE_READ + MIMIC_FILE_WRITE}
IoSizes == {1, SectorCells, SectorCells + 1}
AnyFd == 0..MIMIC_MAX_FILES
FirstByte == 10

\* the caller's buffer: n distinct non-zero values
Buf(n) == [i \in 1..n |-> FirstByte + i - 1]

IsOpen(fd) == fd \in Fds /\ files[fd].open

\* The directory entries of the file of Paths that the card holds: the root
\* directory is one cluster of one sector
EntriesOnCard(v) ==
    {DirEntry(v.disk[fat32_cluster_to_sector(root_cluster)], e) :
        e \in {x \in 0..(EntriesPerSector - 1) :
                 DirEntry(v.disk[fat32_cluster_to_sector(root_cluster)], x).name
                     = fat32_name_to_83("a.txt")}}

\* the card holds no entry of the file of Paths and no sector waits in the
\* cache to be written
Absent(v) == EntriesOnCard(v) = {} /\ ~v.cache_dirty

FOpen(path, mode) ==
    LET r == fopen_of_build(draft, vol, files, path, mode)
    IN  /\ r.ret # HANG
        /\ made' = IF HasFlag(mode, MIMIC_FILE_CREATE) /\ Absent(vol) /\ FreeHandles(files) # {}
                   THEN [stage |-> "create", fd |-> r.ret]
                   ELSE IF made.stage = "close" /\ mode = MIMIC_FILE_READ
                   THEN [stage |-> "reopen", fd |-> r.ret]
                   ELSE NoMade
        /\ vol' = r.vol
        /\ files' = r.files
        /\ fs_ret' = FsCall("open", r.ret, <<>>)
        /\ trip' = IF /\ trip.stage = "close"
                      /\ r.ret = trip.fd
                      /\ HasFlag(mode, MIMIC_FILE_READ)
                   THEN [trip EXCEPT !.stage = "open"]
                   ELSE NoTrip
        /\ UNCHANGED <<kernel_vars, load, ext_vars>>

FWrite(fd, n) ==
    LET r == mimic_fwrite(vol, files, fd, Buf(n), n)
    IN  /\ IsOpen(fd) => files[fd].position + n <= MaxPosition
        /\ vol' = r.vol
        /\ files' = r.files
        /\ fs_ret' = FsCall("write", r.ret, <<>>)
        /\ made' = NoMade
        /\ trip' = IF IsOpen(fd) /\ files[fd].position = 0 /\ r.ret = n
                   THEN [stage |-> "write", fd |-> fd, n |-> n]
                   ELSE NoTrip
        /\ UNCHANGED <<kernel_vars, load, ext_vars>>

FFlush(fd) ==
    LET r == mimic_fflush(vol, fd)
    IN  /\ vol' = r.vol
        /\ fs_ret' = FsCall("flush", r.err, <<>>)
        /\ made' = NoMade
        /\ trip' = IF trip.stage = "write" /\ trip.fd = fd
                   THEN [trip EXCEPT !.stage = "flush"]
                   ELSE NoTrip
        /\ UNCHANGED <<files, kernel_vars, load, ext_vars>>

FClose(fd) ==
    LET r == mimic_fclose(vol, files, fd)
    IN  /\ vol' = r.vol
        /\ files' = r.files
        /\ fs_ret' = FsCall("close", r.ret, <<>>)
        /\ made' = IF made.stage = "create" /\ made.fd = fd /\ r.ret = MIMIC_OK
                   THEN [stage |-> "close", fd |-> fd]
                   ELSE NoMade
        /\ trip' = IF trip.stage = "flush" /\ trip.fd = fd /\ r.ret = MIMIC_OK
                   THEN [trip EXCEPT !.stage = "close"]
                   ELSE NoTrip
        /\ UNCHANGED <<kernel_vars, load, ext_vars>>

FRead(fd, n) ==
    LET r == mimic_fread(vol, files, fd, n)
    IN  /\ vol' = r.vol
        /\ files' = r.files
        /\ fs_ret' = FsCall("read", r.ret, r.out)
        /\ made' = NoMade
        /\ trip' = IF trip.stage = "open" /\ trip.fd = fd /\ trip.n = n
                   THEN [trip EXCEPT !.stage = "read"]
                   ELSE NoTrip
        /\ UNCHANGED <<kernel_vars, load, ext_vars>>

\* the sectors fat32_read_sector(sector) asks the card for, in order: the
\* write-back of the cached sector, then the read
SdTransfers(v, sector) ==
    IF v.cached_sector = sector THEN <<>>
    ELSE IF ~v.cache_dirty THEN <<sector>>
    ELSE IF v.cached_sector \notin Sectors THEN <<v.cached_sector>>
    ELSE <<v.cached_sector, sector>>

\* The three steps the routines of the file system are made of.
\* fat32_read_sector(sector), called before vol.sector_buf is looked at
CacheSector(sector) ==
    LET r == fat32_read_sector(vol, sector)
    IN  /\ vol' = r.vol
        /\ fs_ret' = FsCall("read_sector", r.err, SdTransfers(vol, sector))
        /\ trip' = NoTrip
        /\ made' = NoMade
        /\ UNCHANGED <<files, kernel_vars, load, ext_vars>>

\* a store to vol.sector_buf followed by fat32_cache_dirty(), as in
\* fat32_set_fat_entry, fat32_create_file, mimic_fwrite and mimic_fclose
CacheStore(cell, b) ==
    /\ vol' = fat32_cache_dirty([vol EXCEPT !.sector_buf[cell] = b])
    /\ fs_ret' = FsCall("cache_dirty", MIMIC_OK, <<>>)
    /\ trip' = NoTrip
    /\ made' = NoMade
    /\ UNCHANGED <<files, kernel_vars, load, ext_vars>>

\* fat32_flush_cache()
CacheFlush ==
    LET r == fat32_flush_cache(vol)
    IN  /\ vol' = r.vol
        /\ fs_ret' = FsCall("flush_cache", r.err, <<>>)
        /\ trip' = NoTrip
        /\ made' = NoMade
        /\ UNCHANGED <<files, kernel_vars, load, ext_vars>>

NextFS ==
    \/ \E p \in Paths, m \in OpenModes : FOpen(p, m)
    \/ \E fd \in AnyFd, n \in IoSizes : FWrite(fd, n)
    \/ \E fd \in AnyFd : FFlush(fd)
    \/ \E fd \in AnyFd : FClose(fd)
    \/ \E fd \in AnyFd, n \in IoSizes : FRead(fd, n)

SpecFS == Init /\ [][NextFS]_vars

\* The sector cache on its own: fat32_read_sector of any sector of the card
\* and of the first one beyond it, between stores to the buffer and flushes.
CacheSectors == 0..TotalSectors
StoreCells == {0}

NextCache ==
    \/ \E s \in CacheSectors : CacheSector(s)
    \/ \E c \in StoreCells : CacheStore(c, FirstByte)
    \/ CacheFlush

SpecCache == Init /\ [][NextCache]_vars

\* --------------------------------------------------------- syscall dispatch
\* The syscall numbers of mimic.h.
MIMIC_SYS_EXIT == 0
MIMIC_SYS_YIELD == 1
MIMIC_SYS_SLEEP == 2
MIMIC_SYS_TIME == 3
MIMIC_SYS_MALLOC == 10
MIMIC_SYS_FREE == 11
MIMIC_SYS_REALLOC == 12
MIMIC_SYS_OPEN == 20
MIMIC_SYS_CLOSE == 21
MIMIC_SYS_READ == 22
MIMIC_SYS_WRITE == 23
MIMIC_SYS_SEEK == 24
MIMIC_SYS_PUTCHAR == 30
MIMIC_SYS_GETCHAR == 31
MIMIC_SYS_PUTS == 32
MIMIC_SYS_GPIO_INIT == 40
MIMIC_SYS_GPIO_DIR == 41
MIMIC_SYS_GPIO_PUT == 42
MIMIC_SYS_GPIO_GET == 43
MIMIC_SYS_GPIO_PULL == 44
MIMIC_SYS_PWM_INIT == 50
MIMIC_SYS_PWM_SET_WRAP == 51
MIMIC_SYS_PWM_SET_LEVEL == 52
MIMIC_SYS_PWM_ENABLE == 53
MIMIC_SYS_ADC_INIT == 60
MIMIC_SYS_ADC_SELECT == 61
MIMIC_SYS_ADC_READ == 62
MIMIC_SYS_ADC_TEMP == 63
MIMIC_SYS_SPI_INIT == 70
MIMIC_SYS_SPI_WRITE == 71
MIMIC_SYS_SPI_READ == 72
MIMIC_SYS_SPI_TRANSFER == 73
MIMIC_SYS_I2C_INIT == 80
MIMIC_SYS_I2C_WRITE == 81
MIMIC_SYS_I2C_READ == 82

SyscallTable ==
    {MIMIC_SYS_EXIT, MIMIC_SYS_YIELD, MIMIC_SYS_SLEEP,
     MIMIC_SYS_TIME, MIMIC_SYS_MALLOC, MIMIC_SYS_FREE,
     MIMIC_SYS_REALLOC, MIMIC_SYS_OPEN, MIMIC_SYS_CLOSE,
     MIMIC_SYS_READ, MIMIC_SYS_WRITE, MIMIC_SYS_SEEK,
     MIMIC_SYS_PUTCHAR, MIMIC_SYS_GETCHAR, MIMIC_SYS_PUTS,
     MIMIC_SYS_GPIO_INIT, MIMIC_SYS_GPIO_DIR, MIMIC_SYS_GPIO_PUT,
     MIMIC_SYS_GPIO_GET, MIMIC_SYS_GPIO_PULL, MIMIC_SYS_PWM_INIT,
     MIMIC_SYS_PWM_SET_WRAP, MIMIC_SYS_PWM_SET_LEVEL, MIMIC_SYS_PWM_ENABLE,
     MIMIC_SYS_ADC_INIT, MIMIC_SYS_ADC_SELECT, MIMIC_SYS_ADC_READ,
     MIMIC_SYS_ADC_TEMP, MIMIC_SYS_SPI_INIT, MIMIC_SYS_SPI_WRITE,
     MIMIC_SYS_SPI_READ, MIMIC_SYS_SPI_TRANSFER, MIMIC_SYS_I2C_INIT,
     MIMIC_SYS_I2C_WRITE, MIMIC_SYS_I2C_READ}

\* int mimic_fseek(fd, offset, whence)
FSeekDone(r, fd) ==
    /\ vol' = r.vol
    /\ files' = [files EXCEPT ![fd] = r.file]
    /\ fs_ret' = FsCall("seek", MIMIC_OK, <<>>)

FSeek(fd, offset, whence) ==
    /\ IF fd \notin Fds \/ whence \notin {MIMIC_SEEK_SET, MIMIC_SEEK_CUR, MIMIC_SEEK_END}
       THEN fs_ret' = FsCall("seek", MIMIC_ERR_INVAL, <<>>) /\ UNCHANGED <<vol, files>>
       ELSE IF ~files[fd].open
       THEN fs_ret' = FsCall("seek", MIMIC_ERR_INVAL, <<>>) /\ UNCHANGED <<vol, files>>
       ELSE FSeekDone(mimic_fseek(vol, files[fd], offset, whence), fd)
    /\ trip' = NoTrip
    /\ made' = NoMade
    /\ UNCHANGED <<kernel_vars, load, ext_vars>>

\* A card a host computer prepared: the root directory holds a.txt, one
\* cluster long and exactly one cluster full, its chain ending at that cluster.
HostCard ==
    [FormattedDisk EXCEPT
        ![fat_start_sector][root_cluster + 1] = FAT32_EOC,
        ![fat32_cluster_to_sector(root_cluster)] =
            [c \in Cells |-> CASE c = 0 -> fat32_name_to_83("a.txt")
                               [] c = 2 -> root_cluster + 1
                               [] c = 3 -> bytes_per_cluster
                               [] OTHER -> 0],
        ![fat32_cluster_to_sector(root_cluster + 1)] = [c \in Cells |-> FirstByte + c]]

\* int mimic_fat32_mount(void) at boot, of a card with the contents card
Fat32Mount(card) ==
    /\ fs_ret = NoFsCall
    /\ vol' = [disk |-> card, sector_buf |-> card[0],
               cached_sector |-> 0, cache_dirty |-> FALSE]
    /\ files' = [fd \in Fds |-> [files[fd] EXCEPT !.open = FALSE]]
    /\ fs_ret' = FsCall("mount", MIMIC_OK, <<>>)
    /\ trip' = NoTrip
    /\ made' = NoMade
    /\ UNCHANGED <<kernel_vars, load, ext_vars>>

\* Seeking in a file of the card: callers open it once for reading and
\* writing, with and without creation, seek one cell back, nowhere, one cell
\* on, a cluster on and as far on as an int32_t offset goes, from each origin
\* and from an origin there is none of.
SeekModes == {MIMIC_FILE_READ + MIMIC_FILE_WRITE,
              MIMIC_FILE_READ + MIMIC_FILE_WRITE + MIMIC_FILE_CREATE}
SeekOffsets == {-1, 0, 1, bytes_per_cluster, INT32_MAX}
Whences == {MIMIC_SEEK_SET, MIMIC_SEEK_CUR, MIMIC_SEEK_END, MIMIC_SEEK_END + 1}
SeekIoSizes == {1, SectorCells}

NextSeek ==
    \/ Fat32Mount(HostCard)
    \/ \E m \in SeekModes : FOpen("a.txt", m)
    \/ \E fd \in Fds, n \in SeekIoSizes : FWrite(fd, n)
    \/ \E fd \in Fds, n \in SeekIoSizes : FRead(fd, n)
    \/ \E fd \in AnyFd, o \in SeekOffsets, w \in Whences : FSeek(fd, o, w)

SpecSeek == Init /\ [][NextSeek]_vars

\* the switch of mimic_syscall: the routine the case of num calls, "default"
\* when no case has that number
SyscallCase(num) ==
    CASE num = MIMIC_SYS_EXIT -> "mimic_task_kill"
      [] num = MIMIC_SYS_YIELD -> "mimic_task_yield"
      [] num = MIMIC_SYS_SLEEP -> "mimic_task_sleep"
      [] num = MIMIC_SYS_TIME -> "time_us_64"
      [] num = MIMIC_SYS_MALLOC -> "mimic_umalloc"
      [] num = MIMIC_SYS_FREE -> "mimic_ufree"
      [] num = MIMIC_SYS_PUTCHAR -> "putchar"
      [] num = MIMIC_SYS_GETCHAR -> "getchar"
      [] num = MIMIC_SYS_PUTS -> "printf"
      [] num = MIMIC_SYS_GPIO_INIT -> "gpio_init"
      [] num = MIMIC_SYS_GPIO_DIR -> "gpio_set_dir"
      [] num = MIMIC_SYS_GPIO_PUT -> "gpio_put"
      [] num = MIMIC_SYS_GPIO_GET -> "gpio_get"
      [] num = MIMIC_SYS_GPIO_PULL -> "gpio_pull"
      [] num = MIMIC_SYS_OPEN -> "mimic_fopen"
      [] num = MIMIC_SYS_CLOSE -> "mimic_fclose"
      [] num = MIMIC_SYS_READ -> "mimic_fread"
      [] num = MIMIC_SYS_WRITE -> "mimic_fwrite"
      [] num = MIMIC_SYS_SEEK -> "mimic_fseek"
      [] OTHER -> "default"

\* a case of mimic_syscall that calls into the console, the timer or the GPIO
\* block, none of which is kept here, and returns v
SysDevice(num, v) ==
    /\ ret' = Call(SyscallCase(num), num, v)
    /\ UNCHANGED <<draft, arena_vars, task_vars, fs_vars, load, ext_vars>>

\* what getchar() and gpio_get() may return
DeviceValues == {0, 1}
SysPath == "a.txt"

\* int32_t mimic_syscall(num, a0, a1, a2, a3); kernel.syscalls_handled is not
\* kept.  The string at a0 of MIMIC_SYS_OPEN is SysPath.
Syscall(num, a0, a1, a2) ==
    /\ CanSyscall
    /\ CASE SyscallCase(num) = "mimic_task_kill" -> SysExit
         [] SyscallCase(num) = "mimic_task_yield" -> SysYield
         [] SyscallCase(num) = "mimic_task_sleep" -> SysSleep(a0)
         [] SyscallCase(num) = "mimic_umalloc" -> SysMalloc(a0)
         [] SyscallCase(num) = "mimic_ufree" -> SysFree(a0)
         [] SyscallCase(num) = "mimic_fopen" -> FOpen(SysPath, a1)
         [] SyscallCase(num) = "mimic_fclose" -> FClose(a0)
         [] SyscallCase(num) = "mimic_fread" -> FRead(a0, a2)
         [] SyscallCase(num) = "mimic_fwrite" -> FWrite(a0, a2)
         [] SyscallCase(num) = "mimic_fseek" -> FSeek(a0, a1, a2)
         [] SyscallCase(num) = "time_us_64" -> SysDevice(num, now_ms)
         [] SyscallCase(num) = "putchar" -> SysDevice(num, a0)
         [] SyscallCase(num) \in {"getchar", "gpio_get"}
              -> \E v \in DeviceValues : SysDevice(num, v)
         [] SyscallCase(num) = "default"
              -> /\ ret' = Call("syscall", num, MIMIC_ERR_NOSYS)
                 /\ UNCHANGED <<draft, arena_vars, task_vars, fs_vars, load, ext_vars>>
         [] OTHER -> SysDevice(num, 0)

\* One program at a time is loaded and makes syscalls: those of mimic.h and
\* three numbers mimic.h does not define.
UnknownNums == {4, 13, 83}
SysNums == SyscallTable \cup UnknownNums
SysA0 == {0}
SysA1 == {MIMIC_FILE_READ}
SysA2 == {1}

NextSys ==
    \/ KernelRun
    \/ (LoadedTasks < 1 /\ TaskLoadBegin)
    \/ \E n \in LoadSizes : TaskLoadEnd(SHELL_PRIORITY, n, "none")
    \/ SchedulerTick
    \/ KillFreeAll
    \/ KillEnd
    \/ \E num \in SysNums, a0 \in SysA0, a1 \in SysA1, a2 \in SysA2 :
          Syscall(num, a0, a1, a2)

SpecSys == Init /\ [][NextSys]_vars

\* -------------------------------------------------------------- relocations
\* Section and relocation kinds of mimic.h.
MIMI_SECT_NULL == 0
MIMI_SECT_TEXT == 1
MIMI_SECT_RODATA == 2
MIMI_SECT_DATA == 3
MIMI_SECT_BSS == 4
MIMI_RELOC_ABS32 == 0
MIMI_RELOC_REL32 == 1
MIMI_RELOC_THUMB_CALL == 2
MIMI_RELOC_THUMB_BRANCH == 3
MIMI_RELOC_DATA_PTR == 4

\* (x >> k) & 1 of an int32_t x: the shift keeps the sign
Bit(x, k) == (x \div (2 ^ k)) % 2

\* a store of size bytes at addr
Store(addr, size, value) == [addr |-> addr, size |-> size, value |-> value]

\* the encoding with j1 = i1 ^ s and j2 = i2 ^ s, the complement left out
thumb_call_plain_j(patch_addr, offset) ==
    <<Store(patch_addr, 2,
            61440 + Bit(offset, 24) * 1024 + ((offset \div 4096) % 1024)),
      Store(patch_addr + 2, 2,
            53248 + ((Bit(offset, 23) + Bit(offset, 24)) % 2) * 8192
                  + ((Bit(offset, 22) + Bit(offset, 24)) % 2) * 2048
                  + ((offset \div 2) % 2048))>>

\* case MIMI_RELOC_THUMB_CALL: instr[0] and instr[1]; the fields that are
\* or-ed together share no bit
thumb_call(patch_addr, offset) ==
    <<Store(patch_addr, 2,
            61440 + Bit(offset, 24) * 1024 + ((offset \div 4096) % 1024)),
      Store(patch_addr + 2, 2,
            53248 + ((1 - Bit(offset, 23) + Bit(offset, 24)) % 2) * 8192
                  + ((1 - Bit(offset, 22) + Bit(offset, 24)) % 2) * 2048
                  + ((offset \div 2) % 2048))>>

\* addr + task->mem.<section>_start for the sections a relocation may name,
\* NULL for the others ("default: continue")
PatchSectionStart(layout, section) ==
    IF section = MIMI_SECT_TEXT THEN layout.base + layout.text_start
    ELSE IF section = MIMI_SECT_RODATA THEN layout.base + layout.rodata_start
    ELSE IF section = MIMI_SECT_DATA THEN layout.base + layout.data_start
    ELSE NULL

\* sym_value of symtab[symbol_idx]
SymbolValue(layout, sym) ==
    IF sym.section = MIMI_SECT_TEXT THEN layout.base + layout.text_start + sym.value
    ELSE IF sym.section = MIMI_SECT_RODATA THEN layout.base + layout.rodata_start + sym.value
    ELSE IF sym.section = MIMI_SECT_DATA THEN layout.base + layout.data_start + sym.value
    ELSE IF sym.section = MIMI_SECT_BSS THEN layout.base + layout.bss_start + sym.value
    ELSE sym.value

\* "if (reloc.symbol_idx < hdr.symbol_count && symtab)", else sym_value = 0
RelocSymValue(layout, symtab, entry) ==
    IF entry.symbol_idx < Len(symtab)
    THEN SymbolValue(layout, symtab[entry.symbol_idx + 1])
    ELSE 0

\* the switch on reloc.type at patch_addr; the addresses used here are below
\* 2^30, so that sym_value - patch_addr - 4 does not wrap
RelocStores(type, patch_addr, sym_value) ==
    IF type = MIMI_RELOC_ABS32 THEN <<Store(patch_addr, 4, sym_value)>>
    ELSE IF type = MIMI_RELOC_REL32
    THEN <<Store(patch_addr, 4, sym_value - patch_addr - 4)>>
    ELSE IF type = MIMI_RELOC_THUMB_CALL
    THEN thumb_call(patch_addr, sym_value - patch_addr - 4)
    ELSE <<>>

Relocated(entry, layout, symtab, patch_addr, sym_value, stores) ==
    [entry |-> entry, layout |-> layout, symbol_count |-> Len(symtab),
     applied |-> stores # <<>>, patch_addr |-> patch_addr,
     sym_value |-> sym_value, written |-> stores]

\* One turn of the relocation loop of mimic_load_binary, for the entry read
\* from the file.  Alpha has no symbol table and adds the base of the block to
\* the word old that the section holds at the entry's offset.
apply_relocation(d, layout, symtab, entry, old) ==
    IF PatchSectionStart(layout, entry.section) = NULL
    THEN Relocated(entry, layout, symtab, 0, 0, <<>>)
    ELSE IF d = "Test01"
    THEN Relocated(entry, layout, symtab,
                   PatchSectionStart(layout, entry.section) + entry.offset,
                   RelocSymValue(layout, symtab, entry),
                   RelocStores(entry.type,
                               PatchSectionStart(layout, entry.section) + entry.offset,
                               RelocSymValue(layout, symtab, entry)))
    ELSE Relocated(entry, layout, <<>>,
                   PatchSectionStart(layout, entry.section) + entry.offset, 0,
                   <<Store(PatchSectionStart(layout, entry.section) + entry.offset,
                           4, old + layout.base)>>)

\* The image whose relocations are applied: four sections, loaded at the
\* start of the RP2040's SRAM.
RelocTextSize == 768
RelocImage ==
    [PlainImage EXCEPT !.text_size = RelocTextSize, !.rodata_size = MIMIC_MEM_ALIGN,
                       !.data_size = MIMIC_MEM_ALIGN, !.bss_size = MIMIC_MEM_ALIGN,
                       !.reloc_count = 1, !.symbol_count = 2]
RelocBase == 2 ^ 29
RelocLayout == LoadLayout(RelocImage, RelocBase)

\* relocation entries and symbols as a file may hold them
RelocOffsets == {0, 256, RelocTextSize - 4, RelocTextSize}
RelocEntries ==
    [offset : RelocOffsets, section : MIMI_SECT_NULL..MIMI_SECT_BSS,
     type : MIMI_RELOC_ABS32..MIMI_RELOC_DATA_PTR, symbol_idx : 0..2]
RelocSymbols ==
    [value : {0, 260, 512}, section : {MIMI_SECT_NULL, MIMI_SECT_TEXT, MIMI_SECT_BSS}]
SyscallSymbol == [value |-> MIMIC_SYS_REALLOC, section |-> MIMI_SECT_NULL]

ApplyReloc(entry, sym, old) ==
    /\ reloc' = apply_relocation(draft, RelocLayout, <<sym, SyscallSymbol>>, entry, old)
    /\ UNCHANGED <<kernel_vars, fs_vars, load, lnk, stream, cg, conc>>

NextReloc ==
    \E entry \in RelocEntries, sym \in RelocSymbols : ApplyReloc(entry, sym, 0)

SpecReloc == Init /\ [][NextReloc]_vars

\* ------------------------------------------------------------------- linker
MIMI_SYM_LOCAL == 0
MIMI_SYM_GLOBAL == 1
MIMI_SYM_EXTERN == 2
MIMI_SYM_SYSCALL == 3

\* count, the number of object files of a call
MaxObjects == 2

\* lnk.text_cap, lnk.data_cap, lnk.reloc_cap and lnk.sym_cap, scaled
TextCap == 8
DataCap == 8
RelocCap == 2
SymCap == 2

\* the first index of lnk->symbols whose name is name, 0 if there is none
SymbolIndex(symbols, name) ==
    IF \E i \in 1..Len(symbols) : symbols[i].name = name
    THEN Min({i \in 1..Len(symbols) : symbols[i].name = name})
    ELSE 0

\* static int linker_add_symbol(lnk, sym); its callers drop the index
linker_add_symbol(l, sym) ==
    IF SymbolIndex(l.symbols, sym.name) # 0
    THEN IF sym.type = MIMI_SYM_GLOBAL
            /\ l.symbols[SymbolIndex(l.symbols, sym.name)].type = MIMI_SYM_EXTERN
         THEN [l EXCEPT !.symbols[SymbolIndex(l.symbols, sym.name)] = sym]
         ELSE IF sym.type = MIMI_SYM_GLOBAL
                 /\ l.symbols[SymbolIndex(l.symbols, sym.name)].type = MIMI_SYM_GLOBAL
         THEN [l EXCEPT !.error_count = (@ + 1) % UINT32]
         ELSE l
    ELSE IF Len(l.symbols) >= SymCap THEN l
    ELSE [l EXCEPT !.symbols = Append(@, sym)]

\* "Adjust offset based on section", of a relocation or of a symbol
SectionAdjust(section, value, text_offset, data_offset) ==
    IF section = MIMI_SECT_TEXT THEN (value + text_offset) % UINT32
    ELSE IF section = MIMI_SECT_DATA THEN (value + data_offset) % UINT32
    ELSE value

\* the symbol loop that takes the value of main as it stands in the file
load_symbol_unadjusted(l, sym, text_offset, data_offset) ==
    linker_add_symbol(
        IF sym.name = "main" /\ sym.type = MIMI_SYM_GLOBAL
        THEN [l EXCEPT !.entry_offset = sym.value, !.has_entry = TRUE]
        ELSE l,
        [sym EXCEPT !.value = SectionAdjust(sym.section, @, text_offset, data_offset)])

\* one turn of the symbol loop of linker_load_object
LoadSymbol(l, sym, text_offset, data_offset) ==
    linker_add_symbol(
        IF sym.name = "main" /\ sym.type = MIMI_SYM_GLOBAL
        THEN [l EXCEPT !.entry_offset = SectionAdjust(sym.section, sym.value,
                                                      text_offset, data_offset),
                       !.has_entry = TRUE]
        ELSE l,
        [sym EXCEPT !.value = SectionAdjust(sym.section, @, text_offset, data_offset)])

RECURSIVE LoadSymbols(_, _, _, _, _)
LoadSymbols(l, syms, i, text_offset, data_offset) ==
    IF i > Len(syms) THEN l
    ELSE LoadSymbols(LoadSymbol(l, syms[i], text_offset, data_offset), syms, i + 1,
                     text_offset, data_offset)

\* one turn of the relocation loop of linker_load_object
LoadReloc(l, r, text_offset, data_offset) ==
    IF Len(l.relocs) < RelocCap
    THEN [l EXCEPT !.relocs = Append(@, [r EXCEPT !.offset =
                        SectionAdjust(r.section, @, text_offset, data_offset)])]
    ELSE l

RECURSIVE LoadRelocs(_, _, _, _, _)
LoadRelocs(l, relocs, i, text_offset, data_offset) ==
    IF i > Len(relocs) THEN l
    ELSE LoadRelocs(LoadReloc(l, relocs[i], text_offset, data_offset), relocs, i + 1,
                    text_offset, data_offset)

LinkResult(l, err) == [lnk |-> l, err |-> err]

\* static int linker_load_object(lnk, path) for the object obj that the file
\* holds.  fault names the step at which the file fails: "open" (no such
\* file), "header" (short read), "none".
linker_load_object(l, obj, fault) ==
    IF fault = "open" THEN LinkResult(l, MIMIC_ERR_NOENT)
    ELSE IF fault = "header" THEN LinkResult(l, MIMIC_ERR_CORRUPT)
    ELSE IF obj.code_size > 0 /\ l.text_size + obj.code_size > TextCap
    THEN LinkResult(l, MIMIC_ERR_NOMEM)
    ELSE IF obj.data_size > 0 /\ l.data_size + obj.data_size > DataCap
    THEN LinkResult([l EXCEPT !.text_size = @ + obj.code_size], MIMIC_ERR_NOMEM)
    ELSE LinkResult(
             LoadSymbols(
                 LoadRelocs([l EXCEPT !.text_size = @ + obj.code_size,
                                      !.data_size = @ + obj.data_size],
                            obj.relocs, 1, l.text_size, l.data_size),
                 obj.syms, 1, l.text_size, l.data_size),
             MIMIC_OK)

\* the errors linker_process_relocations counts
RelocErrors(l) ==
    Cardinality({i \in 1..Len(l.relocs) :
        \/ l.relocs[i].symbol_idx >= Len(l.symbols)
        \/ /\ l.symbols[l.relocs[i].symbol_idx + 1].type = MIMI_SYM_EXTERN
           /\ l.symbols[l.relocs[i].symbol_idx + 1].section = MIMI_SECT_NULL})

\* static int linker_process_relocations(lnk)
linker_process_relocations(l) ==
    LinkResult([l EXCEPT !.error_count = (@ + RelocErrors(l)) % UINT32],
               IF (l.error_count + RelocErrors(l)) % UINT32 > 0
               THEN MIMIC_ERR_NOENT ELSE MIMIC_OK)

\* static int linker_write_binary(lnk, output); fd is what mimic_fopen returns
linker_write_binary(l, fd) ==
    IF fd < 0 THEN LinkResult(l, fd)
    ELSE LinkResult([l EXCEPT !.hdr_entry_offset = <<l.entry_offset>>], MIMIC_OK)

\* mimic_cc_link from "Check for entry point" on; p is what
\* linker_process_relocations returned
LinkProcessed(p, fd) ==
    IF p.err # MIMIC_OK /\ p.lnk.error_count > 0 THEN p
    ELSE linker_write_binary(p.lnk, fd)

LinkFinish(l, fd) ==
    IF ~l.has_entry THEN LinkResult(l, MIMIC_ERR_NOENT)
    ELSE LinkProcessed(linker_process_relocations(l), fd)

Returned(r) == [r.lnk EXCEPT !.stage = "done", !.err = r.err]

\* int mimic_cc_link(cc, obj_files, count, output), in steps.
\* The five buffers: mimic_kmalloc gives them all, or the call returns
\* MIMIC_ERR_NOMEM.  (With the heaps of mimic.h, 80 KB and 50 KB, and buffers
\* of 64 + 16 + 16 + 6 + 6 KB, the kernel pool never holds them all.)
LinkBegin(allocated) ==
    /\ lnk.stage # "loading"
    /\ lnk' = IF allocated THEN [NoLink EXCEPT !.stage = "loading"]
              ELSE [NoLink EXCEPT !.stage = "done", !.err = MIMIC_ERR_NOMEM]
    /\ UNCHANGED <<kernel_vars, fs_vars, load, reloc, stream, cg, conc>>

\* one turn of "Load all object files"
LinkLoaded(r, obj) ==
    lnk' = IF r.err # MIMIC_OK
           THEN [Returned(r) EXCEPT !.objs = Append(lnk.objs, obj)]
           ELSE [r.lnk EXCEPT !.objs = Append(lnk.objs, obj)]

LinkLoad(obj, fault) ==
    /\ lnk.stage = "loading"
    /\ Len(lnk.objs) < MaxObjects
    /\ LinkLoaded(linker_load_object(lnk, obj, fault), obj)
    /\ UNCHANGED <<kernel_vars, fs_vars, load, reloc, stream, cg, conc>>

\* the rest of mimic_cc_link, once obj_files has been gone through
LinkEnd(fd) ==
    /\ lnk.stage = "loading"
    /\ lnk' = Returned(LinkFinish(lnk, fd))
    /\ UNCHANGED <<kernel_vars, fs_vars, load, reloc, stream, cg, conc>>

\* Object files: one function of CodeSize bytes, at most one relocation, and
\* up to two symbols named main or foo.
CodeSize == 4
Symbol(name, type, section, value) ==
    [name |-> name, type |-> type, section |-> section, value |-> value]
ObjSymbols ==
    {Symbol("main", MIMI_SYM_GLOBAL, MIMI_SECT_TEXT, 2),
     Symbol("main", MIMI_SYM_EXTERN, MIMI_SECT_NULL, 0),
     Symbol("foo", MIMI_SYM_GLOBAL, MIMI_SECT_TEXT, 0),
     Symbol("foo", MIMI_SYM_EXTERN, MIMI_SECT_NULL, 0),
     Symbol("foo", MIMI_SYM_LOCAL, MIMI_SECT_TEXT, 0)}
ObjSymbolLists ==
    {<<>>} \cup {<<s>> : s \in ObjSymbols}
           \cup {<<s1, s2>> : s1 \in ObjSymbols, s2 \in ObjSymbols}
ObjRelocLists ==
    {<<>>, <<[offset |-> 0, section |-> MIMI_SECT_TEXT,
              type |-> MIMI_RELOC_THUMB_CALL, symbol_idx |-> 1]>>}
Objects ==
    [code_size : {CodeSize}, data_size : {0}, relocs : ObjRelocLists,
     syms : ObjSymbolLists]
ObjectFaults == {"none", "open", "header"}
OutputFds == {0, MIMIC_ERR_NOSYS}

NextLink ==
    \/ \E a \in BOOLEAN : LinkBegin(a)
    \/ \E obj \in Objects, f \in ObjectFaults : LinkLoad(obj, f)
    \/ \E fd \in OutputFds : LinkEnd(fd)

SpecLink == Init /\ [][NextLink]_vars

\* ------------------------------------------------------- locks (Test-01)
\* What each routine does to the locks of the kernel, in order.
Enter(l) == [kind |-> "enter", lock |-> l]
Exit(l) == [kind |-> "exit", lock |-> l]

\* mem_alloc_from_pool, mem_free_in_pool and mem_coalesce_pool with their
\* mutex_t* lock, from mutex_enter_blocking to mutex_exit
pool_locks(l) == <<Enter(l), Exit(l)>>

\* mimic_ufree: the owner check, then mem_free_in_pool if (valid)
ufree_locks(valid) ==
    pool_locks("user_lock") \o (IF valid THEN pool_locks("user_lock") ELSE <<>>)

\* mimic_task_free_all_memory: its loop, then mem_coalesce_pool
free_all_locks == pool_locks("user_lock") \o pool_locks("user_lock")

\* a mimic_task_kill that takes user_lock before task_lock
kill_locks_user_first(live) ==
    <<Enter("user_lock"), Enter("task_lock"), Exit("task_lock"), Exit("user_lock")>>

\* mimic_task_kill of a slot in range; live: its state is not FREE
kill_locks(live) ==
    <<Enter("task_lock")>> \o (IF live THEN free_all_locks ELSE <<>>)
                           \o <<Exit("task_lock")>>

\* task_alloc
task_alloc_locks == <<Enter("task_lock"), Exit("task_lock")>>

\* scheduler_tick while kernel.running: nothing is called between
\* critical_section_enter_blocking and critical_section_exit
tick_locks == <<Enter("sched_cs"), Exit("sched_cs")>>

LockOps ==
    {"kmalloc", "kfree", "umalloc", "ufree", "ufree_not_owner", "free_all",
     "kill", "kill_free_slot", "task_alloc", "tick"}

LockScript(op) ==
    CASE op \in {"kmalloc", "kfree"} -> pool_locks("mem_lock")
      [] op = "umalloc" -> pool_locks("user_lock")
      [] op = "ufree" -> ufree_locks(TRUE)
      [] op = "ufree_not_owner" -> ufree_locks(FALSE)
      [] op = "free_all" -> free_all_locks
      [] op = "kill" -> kill_locks(TRUE)
      [] op = "kill_free_slot" -> kill_locks(FALSE)
      [] op = "task_alloc" -> task_alloc_locks
      [] op = "tick" -> tick_locks
      [] OTHER -> <<>>

\* the step caller c is about to take, and the locks it holds
Busy(c) == conc.at[c].op # "none"
NextStep(c) == LockScript(conc.at[c].op)[conc.at[c].i + 1]
HeldBy(c) == {l \in Locks : conc.held[l] = c}

\* the position of caller c after one more step of its routine
Stepped(c) ==
    IF conc.at[c].i + 1 = Len(LockScript(conc.at[c].op))
    THEN [op |-> "none", i |-> 0]
    ELSE [conc.at[c] EXCEPT !.i = @ + 1]

\* caller c enters the routine op
ConcCall(c, op) ==
    /\ ~Busy(c)
    /\ conc' = [conc EXCEPT !.at[c] = [op |-> op, i |-> 0]]
    /\ UNCHANGED <<kernel_vars, fs_vars, load, reloc, lnk, stream, cg>>

\* mutex_enter_blocking, critical_section_enter_blocking: the caller goes on
\* once nobody holds the lock
ConcEnter(c) ==
    /\ Busy(c)
    /\ NextStep(c).kind = "enter"
    /\ conc.held[NextStep(c).lock] = 0
    /\ conc' = [conc EXCEPT !.held[NextStep(c).lock] = c, !.at[c] = Stepped(c)]
    /\ UNCHANGED <<kernel_vars, fs_vars, load, reloc, lnk, stream, cg>>

\* mutex_exit, critical_section_exit
ConcExit(c) ==
    /\ Busy(c)
    /\ NextStep(c).kind = "exit"
    /\ conc' = [conc EXCEPT !.held[NextStep(c).lock] = 0, !.at[c] = Stepped(c)]
    /\ UNCHANGED <<kernel_vars, fs_vars, load, reloc, lnk, stream, cg>>

NextLocks ==
    \/ \E c \in Callers, op \in LockOps : ConcCall(c, op)
    \/ \E c \in Callers : ConcEnter(c)
    \/ \E c \in Callers : ConcExit(c)

SpecLocks == Init /\ [][NextLocks]_vars

\* ------------------------------------------------- code generator (Test-01)
\* uint32_t thumb_bl(int32_t offset): (hi << 16) | lo, kept as its two halves
thumb_bl_of(o) ==
    [hi |-> 61440 + Bit(o, 24) * 1024 + ((o \div 2048) % 1024),
     lo |-> 53248 + ((1 + Bit(o, 23) + Bit(o, 24)) % 2) * 8192
                  + ((1 + Bit(o, 22) + Bit(o, 24)) % 2) * 2048
                  + (o % 2048)]

\* "offset >>= 1" comes first: an arithmetic shift
thumb_bl(offset) == thumb_bl_of(offset \div 2)

\* cg->code[offset .. offset + 3] of the BL case of cg_fixup_branches
FixupBytes(instr) ==
    <<instr.hi % 256, instr.hi \div 256, instr.lo % 256, instr.lo \div 256>>

\* one turn of the loop of cg_fixup_branches for a branch of type 2 (BL) at
\* code_offset whose label is at target; labels holds 0xFFFFFFFF for a label
\* that was never placed
UNPLACED == UINT32 - 1
cg_fixup_branch(code_offset, target) ==
    IF target = UNPLACED THEN [NoCg EXCEPT !.code_offset = code_offset, !.target = target]
    ELSE [code_offset |-> code_offset, target |-> target,
          rel |-> target - (code_offset + 4), fixed |-> TRUE,
          code |-> FixupBytes(thumb_bl(target - (code_offset + 4)))]

CgFixupBranch(code_offset, target) ==
    /\ cg' = cg_fixup_branch(code_offset, target)
    /\ UNCHANGED <<kernel_vars, fs_vars, load, reloc, lnk, stream, conc>>

\* Branches at the start of the code, 4 KiB in and 4, 8 and 16 MiB in, to
\* labels near each of these places.
CgOffsets == {0, 2, 4096, 2 ^ 22, 2 ^ 23, 2 ^ 24}
CgTargets ==
    {base + d : base \in {0, 4096, 2 ^ 22, 2 ^ 23, 2 ^ 24}, d \in {0, 2, 4, 6, 260}}
        \cup {UNPLACED}

NextCg == \E o \in CgOffsets, t \in CgTargets : CgFixupBranch(o, t)

SpecCg == Init /\ [][NextCg]_vars

\* ------------------------------------------------- streaming I/O (v2-DEBUG)
\* buf_size of a stream, the bytes a caller puts into one stream
StreamBufSizes == {2, 3}
MaxPut == 10

\* the bytes of st.buffer that a mimic_fwrite returning n has taken
Delivered(st, n) ==
    [st EXCEPT !.sent = @ \o SubSeq(st.buffer, 1, IF n > 0 THEN n ELSE 0)]

StreamResult(v, fs, st) == [vol |-> v, files |-> fs, stream |-> st]

\* int mimic_stream_open(stream, path, mode, buffer, buf_size); r is what
\* mimic_fopen returned
StreamOpened(r, st, mode, buf_size) ==
    IF r.ret < 0
    THEN StreamResult(r.vol, r.files, [st EXCEPT !.fd = r.ret, !.ret = r.ret])
    ELSE StreamResult(r.vol, r.files,
             [fd |-> r.ret, buffer |-> [i \in 1..buf_size |-> 0],
              buf_size |-> buf_size, buf_pos |-> 0,
              writing |-> HasFlag(mode, MIMIC_FILE_WRITE),
              put |-> <<>>, sent |-> <<>>, refused |-> FALSE,
              op |-> "open", ret |-> MIMIC_OK])

mimic_stream_open(d, v, fs, st, path, mode, buf_size) ==
    StreamOpened(fopen_of_build(d, v, fs, path, mode), st, mode, buf_size)

\* stream->buffer[stream->buf_pos++] = (uint8_t)c; return c;
PutStored(st, c) ==
    [st EXCEPT !.buffer[st.buf_pos + 1] = c, !.buf_pos = @ + 1,
               !.put = Append(@, c), !.op = "putc", !.ret = c]

\* mimic_stream_putc with a full buffer; r is what mimic_fwrite returned
PutFlushed(r, st, c) ==
    IF r.ret < st.buf_pos
    THEN StreamResult(r.vol, r.files,
             [Delivered(st, r.ret) EXCEPT !.refused = TRUE, !.op = "putc",
                                          !.ret = MIMIC_ERR_IO])
    ELSE StreamResult(r.vol, r.files,
             PutStored([Delivered(st, r.ret) EXCEPT !.buf_pos = 0], c))

\* int mimic_stream_putc(stream, c)
mimic_stream_putc(v, fs, st, c) ==
    IF st.buf_pos >= st.buf_size
    THEN PutFlushed(mimic_fwrite(v, fs, st.fd, st.buffer, st.buf_pos), st, c)
    ELSE StreamResult(v, fs, PutStored(st, c))

\* mimic_stream_close from mimic_fclose on; c is what mimic_fclose returned
StreamClosed(c, st) ==
    StreamResult(c.vol, c.files,
                 [st EXCEPT !.fd = -1, !.op = "close",
                            !.ret = c.ret])

\* the result r of the mimic_fwrite of mimic_stream_close is not looked at
CloseFlushed(r, st) ==
    StreamClosed(mimic_fclose(r.vol, r.files, st.fd), Delivered(st, r.ret))

\* int mimic_stream_close(stream)
mimic_stream_close(v, fs, st) ==
    IF st.fd < 0
    THEN StreamResult(v, fs, [st EXCEPT !.op = "close", !.ret = MIMIC_ERR_INVAL])
    ELSE IF st.writing /\ st.buf_pos > 0
    THEN CloseFlushed(mimic_fwrite(v, fs, st.fd, st.buffer, st.buf_pos), st)
    ELSE StreamClosed(mimic_fclose(v, fs, st.fd), st)

StreamStep(r) ==
    /\ vol' = r.vol
    /\ files' = r.files
    /\ stream' = r.stream
    /\ UNCHANGED <<kernel_vars, fs_ret, trip, made, load, reloc, lnk, cg, conc>>

\* a caller opens its stream when the stream is not open
StreamOpen(path, mode, buf_size) ==
    /\ stream.fd < 0
    /\ fopen_of_build(draft, vol, files, path, mode).ret # HANG
    /\ StreamStep(mimic_stream_open(draft, vol, files, stream, path, mode,
                                    buf_size))

\* the caller puts the next byte of its text into the open stream
StreamPutc ==
    /\ stream.fd >= 0
    /\ Len(stream.put) < MaxPut
    /\ StreamStep(mimic_stream_putc(vol, files, stream,
                                    FirstByte + Len(stream.put)))

StreamClose ==
    /\ stream.fd >= 0
    /\ StreamStep(mimic_stream_close(vol, files, stream))

NextStream ==
    \/ \E p \in Paths, m \in OpenModes, n \in StreamBufSizes : StreamOpen(p, m, n)
    \/ StreamPutc
    \/ StreamClose

SpecStream == Init /\ [][NextStream]_vars

\* ------------------------------------------------------------------ claims
\* n rounded up to the next multiple of the alignment, as a number
RoundUp(n) == ((n + MIMIC_MEM_ALIGN - 1) \div MIMIC_MEM_ALIGN) * MIMIC_MEM_ALIGN

\* two non-empty ranges [a1, a1+s1) and [a2, a2+s2) share a byte
Overlap(a1, s1, a2, s2) == s1 > 0 /\ s2 > 0 /\ a1 < a2 + s2 /\ a2 < a1 + s1

LastAllocPool == IF ret.op = "kmalloc" THEN mem_blocks ELSE user_blocks

\* C1: whenever alloc(n) on either pool has just returned a non-null pointer,
\* the pointer is 32-byte aligned and is the address of a live block, and the
\* range [ptr, ptr + aligned(n)) shares no byte with any other live block of
\* the pool.
C1_AllocAlignedDisjoint ==
    (ret.op \in {"kmalloc", "umalloc"} /\ ret.val # NULL) =>
        /\ ret.val % MIMIC_MEM_ALIGN = 0
        /\ \E i \in 1..Len(LastAllocPool) :
              /\ LastAllocPool[i].addr = ret.val
              /\ ~LastAllocPool[i].free
              /\ \A j \in (1..Len(LastAllocPool)) \ {i} :
                    ~LastAllocPool[j].free =>
                        ~Overlap(ret.val, RoundUp(ret.arg),
                                 LastAllocPool[j].addr, LastAllocPool[j].size)

\* ---- scheduler claims
Runnable(st) == st \in {TASK_STATE_READY, TASK_STATE_RUNNING}

\* task b becomes the running task in this step
MadeRunning(b) ==
    /\ current_task' = b
    /\ tasks'[b].state = TASK_STATE_RUNNING
    /\ ~(current_task = b /\ tasks[b].state = TASK_STATE_RUNNING)

\* C2: with task a of priority 2 runnable (READY or RUNNING), no step makes a
\* task b of priority 5 the running task and leaves a runnable: b gets the
\* processor only once a has gone to sleep or is gone.
C2_LowerPriorityWaits ==
    [][\A a \in UserSlots, b \in UserSlots :
          ( /\ tasks[a].priority = 2
            /\ tasks[b].priority = 5
            /\ Runnable(tasks[a].state)
            /\ MadeRunning(b) )
          => ~Runnable(tasks'[a].state)]_vars

\* C3: a task that calls sleep(ms) at a time before now + ms is neither READY
\* nor RUNNING when the call has rescheduled, and a SLEEPING task is made READY
\* or RUNNING only by a step that ends at or after its wake_time.
C3_SleepMonotonic ==
    [][ /\ \A ms \in SleepTimes :
              (SysSleep(ms) /\ now_ms < now_ms + ms)
              => ~Runnable(tasks'[current_task].state)
        /\ \A t \in UserSlots :
              (tasks[t].state = TASK_STATE_SLEEPING /\ Runnable(tasks'[t].state))
              => now_ms' >= tasks[t].wake_time ]_vars

\* C4: a slot that is FREE, as the slot of a killed or exited task is until
\* it is loaded again, is still FREE after a scheduler tick, and the tick
\* does not select it as current_task.
C4_KilledStaysDead ==
    [][SchedulerTick =>
          \A t \in UserSlots :
              tasks[t].state = TASK_STATE_FREE
              => (tasks'[t].state = TASK_STATE_FREE /\ current_task' # t)]_vars

\* t is READY and no runnable task has a better (lower) priority value
ReadyAtBestPriority(t) ==
    /\ tasks[t].state = TASK_STATE_READY
    /\ \A u \in UserSlots :
          Runnable(tasks[u].state) => tasks[t].priority <= tasks[u].priority

\* C9: while the scheduler keeps ticking, no task stays READY at the best
\* priority for ever without being run: every such task is eventually RUNNING
\* (or no longer READY at the best priority), however many tasks share that
\* priority.
C9_EqualPriorityFairness ==
    \A t \in UserSlots :
        ~<>[](pc = Idle /\ running /\ ReadyAtBestPriority(t))

\* ---- task memory claims
RECURSIVE SumFree(_, _)
SumFree(blocks, i) ==
    IF i > Len(blocks) THEN 0
    ELSE (IF blocks[i].free THEN blocks[i].size ELSE 0) + SumFree(blocks, i + 1)

OwnsLive(blocks, task_id) ==
    \E i \in 1..Len(blocks) : blocks[i].task_id = task_id /\ ~blocks[i].free

\* the block at ptr is allocated to a task other than t, and t has no
\* allocated block there
ForeignBlock(ptr, t) ==
    /\ \E i \in 1..Len(user_blocks) :
          /\ user_blocks[i].addr = ptr
          /\ ~user_blocks[i].free
          /\ user_blocks[i].task_id # t
    /\ ~\E i \in 1..Len(user_blocks) :
          /\ user_blocks[i].addr = ptr
          /\ ~user_blocks[i].free
          /\ user_blocks[i].task_id = t

\* C5: a FREE(ptr) syscall of the running task on a block allocated to another
\* task changes neither the block table nor the free-byte count nor
\* total_frees.
C5_ForeignFreeIsNoOp ==
    [][\A ptr \in UserPtrs :
          (SysFree(ptr) /\ ForeignBlock(ptr, current_task))
          => UNCHANGED <<user_blocks, user_free, total_frees>>]_vars

KillFreed == pc.op \in {"kill", "exit"} /\ pc.step = "freed"

NoOtherAlive(t) ==
    \A u \in UserSlots \ {t} : tasks[u].state = TASK_STATE_FREE

C10_ReclaimBeforeFree ==
    /\ [](\A t \in UserSlots :
            tasks[t].state = TASK_STATE_FREE => ~OwnsLive(user_blocks, t))
    /\ [][\A t \in UserSlots :
            ( /\ pc.op \in {"kill", "exit"}
              /\ tasks[t].state # TASK_STATE_FREE
              /\ tasks'[t].state = TASK_STATE_FREE )
            => tasks[t].state = TASK_STATE_ZOMBIE]_vars

\* C6: when write(fd, buf, n) at the start of a file, flush(fd), close(fd),
\* open(path) for reading and read(fd, out, n) have followed one another, the
\* bytes read are the n bytes written, whatever n is, a whole sector or more
\* included.
C6_WriteReadRoundTrip ==
    trip.stage = "read" => fs_ret.out = Buf(trip.n)

ValidHeader(hdr) ==
    /\ hdr.magic = MIMI_MAGIC
    /\ hdr.version = MIMI_VERSION
    /\ hdr.arch \in TargetArchs
    /\ hdr.text_size > 0
    /\ hdr.entry_offset < hdr.text_size

\* C12: a load succeeds only for a header whose magic is MIMI, whose version
\* is 1, whose arch is the target's, whose text_size is positive and whose
\* entry_offset is below text_size; a header with entry_offset = text_size is
\* refused and no user memory is allocated for it.
C12_OnlyValidHeadersLoad ==
    (ret.op = "task_load" /\ load.task # 0)
        => /\ (load.err = MIMIC_OK => ValidHeader(load.hdr))
           /\ (load.hdr.entry_offset = load.hdr.text_size
                 => /\ load.err # MIMIC_OK
                    /\ user_free = load.free_before
                    /\ LiveBlocks(user_blocks) = load.live_before)

\* C13: when the Test-01 loader has read a header and the header fails any of
\* the validation tests, the load returns MIMIC_ERR_NOEXEC.
C13_InvalidHeaderIsNoExec ==
    (/\ draft = "Test01"
     /\ ret.op = "task_load"
     /\ load.task # 0
     /\ load.fault \notin {"open", "header"}
     /\ ~ValidHeader(load.hdr))
        => load.err = MIMIC_ERR_NOEXEC

\* The offsets of a region of size bytes that starts at start lie in the image
InImage(m, start, size) == start >= 0 /\ start + size <= m.total_size

\* C14: a task that has been loaded has total_size = text + rodata + data +
\* bss + stack + heap rounded up to a multiple of 32, and its BSS, its heap and
\* its stack are pairwise disjoint and inside [base, base + total_size).
C14_LayoutInsideBlock ==
    (ret.op = "task_load" /\ load.task # 0 /\ load.err = MIMIC_OK)
        => LET m == load.layout
               h == load.hdr
               stack_start == m.stack_top - m.stack_size
           IN  /\ m.total_size = RoundUp(h.text_size + h.rodata_size + h.data_size
                                         + h.bss_size + m.stack_size + m.heap_size)
               /\ InImage(m, m.bss_start, m.bss_size)
               /\ InImage(m, m.heap_start, m.heap_size)
               /\ InImage(m, stack_start, m.stack_size)
               /\ ~Overlap(m.bss_start, m.bss_size, m.heap_start, m.heap_size)
               /\ ~Overlap(m.bss_start, m.bss_size, stack_start, m.stack_size)
               /\ ~Overlap(m.heap_start, m.heap_size, stack_start, m.stack_size)

\* C15: when alloc(n), n > 0, on either pool of the Test-01 kernel has just
\* returned null, the pool has no free block of aligned(n) bytes or more even
\* after its blocks are sorted by address and its adjacent free blocks merged.
C15_NullOnlyAfterCoalescing ==
    (/\ draft = "Test01"
     /\ ret.op \in {"kmalloc", "umalloc"}
     /\ ret.arg # 0
     /\ ret.val = NULL)
        => LET merged == mem_coalesce_pool(LastAllocPool)
           IN  \A i \in 1..Len(merged) :
                  ~(merged[i].free /\ merged[i].size >= RoundUp(ret.arg))

\* C16: a step that closes a handle opened with MIMIC_FILE_WRITE leaves on the
\* card a directory entry of the file whose file_size is the handle's
\* file_size and whose fst_clus_hi and fst_clus_lo make the handle's
\* first_cluster.
C16_CloseStoresSizeAndCluster ==
    [][\A fd \in Fds :
          (files[fd].open /\ ~files'[fd].open /\ HasFlag(files[fd].mode, MIMIC_FILE_WRITE))
              => \E entry \in EntriesOnCard(vol') :
                    /\ entry.file_size = files[fd].file_size
                    /\ entry.fst_clus_hi * UINT16 + entry.fst_clus_lo
                           = files[fd].first_cluster]_vars

\* The FAT entry of a cluster as the card holds it
FatOnCard(v, cluster) == v.disk[FatSector(cluster)][FatOffset(cluster)] % (FAT_ENTRY_MASK + 1)
DataClusters == 2..(total_clusters + 1)
FreeOnCard(v) == {c \in DataClusters : FatOnCard(v, c) = FAT32_FREE}

\* The handle fd appends bytes that end exactly at the end of its cluster, and
\* the card has the clusters the write needs
FillsCluster(fd) ==
    /\ files[fd].open
    /\ files'[fd].open
    /\ files[fd].position = files[fd].file_size
    /\ files'[fd].position > files[fd].position
    /\ files[fd].cluster_offset + (files'[fd].position - files[fd].position)
          = bytes_per_cluster
    /\ Cardinality(FreeOnCard(vol)) >= 2

\* The cluster that such a write fills: the handle's cluster, or the first
\* cluster the write gives an empty file
FilledCluster(fd) ==
    IF files[fd].current_cluster = 0 THEN files'[fd].first_cluster
    ELSE files[fd].current_cluster

\* C17: a write that exactly fills the last cluster of a file allocates one
\* cluster beyond it and links it: on the card the FAT entry of the filled
\* cluster is the new cluster, which was free, and the FAT entry of the new
\* cluster is the end-of-chain mark.
C17_FilledClusterIsLinked ==
    [][\A fd \in Fds :
          FillsCluster(fd)
              => LET new == files'[fd].current_cluster
                 IN  /\ new \in FreeOnCard(vol)
                     /\ new # FilledCluster(fd)
                     /\ FatOnCard(vol', FilledCluster(fd)) = new
                     /\ FatOnCard(vol', new) = FAT32_EOC
                     /\ FreeOnCard(vol) \ FreeOnCard(vol') \subseteq {new, FilledCluster(fd)}]_vars

\* C18: open(p, WRITE|CREATE) of a path the card does not hold, with a handle
\* free, succeeds, and
\* when close of that handle and open(p, READ) have followed it, the second
\* open succeeds with a handle whose file_size is 0.
C18_CreatedFileOpensEmpty ==
    /\ made.stage = "create" => made.fd >= 0
    /\ made.stage = "reopen"
         => /\ made.fd >= 0
            /\ files[made.fd].open
            /\ files[made.fd].file_size = 0

\* a dirty buffer is on the card, at the sector it was cached for, or still
\* in the cache and still marked dirty
DirtyKept ==
    vol.cache_dirty
        => \/ /\ vol.cached_sector \in Sectors
              /\ vol'.disk[vol.cached_sector] = vol.sector_buf
           \/ /\ vol'.sector_buf = vol.sector_buf
              /\ vol'.cached_sector = vol.cached_sector
              /\ vol'.cache_dirty

CacheSectorPost(n) ==
    /\ n = vol.cached_sector => vol' = vol /\ fs_ret'.val = MIMIC_OK
    /\ DirtyKept
    /\ n # vol.cached_sector /\ vol.cache_dirty /\ vol'.cached_sector = n
         => /\ vol'.disk[vol.cached_sector] = vol.sector_buf
            /\ ~vol'.cache_dirty
    /\ vol'.cached_sector # vol.cached_sector
         => /\ vol'.cached_sector = n
            /\ vol'.sector_buf = vol'.disk[n]
    /\ \A s \in Sectors \ {vol.cached_sector} : vol'.disk[s] = vol.disk[s]

\* C19: fat32_read_sector(n) leaves the card and the buffer alone when n is
\* the cached sector; otherwise a dirty buffer is written to the sector it was
\* cached for before the buffer is filled from sector n, so that a dirty
\* buffer is never lost when the cached sector is replaced.
C19_ReadSectorWritesBack ==
    [][\A n \in CacheSectors : CacheSector(n) => CacheSectorPost(n)]_vars

\* fat32_read_sector has written a dirty buffer back and then read another
\* sector
C19_Witness ==
    /\ fs_ret.op = "read_sector"
    /\ fs_ret.val = MIMIC_OK
    /\ Len(fs_ret.out) = 2
    /\ vol.disk[fs_ret.out[1]][0] = FirstByte
    /\ ~vol.cache_dirty
    /\ vol.cached_sector = fs_ret.out[2]

\* C20: mimic_syscall returns MIMIC_ERR_NOSYS from its default case exactly
\* for the numbers that are not in the table of syscall numbers; every number
\* of the table, MIMIC_SYS_REALLOC among them, has a case of its own.
C20_NosysOnlyOutsideTable ==
    [][\A num \in SysNums, a0 \in SysA0, a1 \in SysA1, a2 \in SysA2 :
          Syscall(num, a0, a1, a2)
              => ((ret' = Call("syscall", num, MIMIC_ERR_NOSYS))
                      <=> num \notin SyscallTable)]_vars

\* the byte offset a BL of halfwords hi, lo branches by: S:I1:I2:imm10:imm11:0
\* sign-extended, with I1 = NOT(J1 XOR S) and I2 = NOT(J2 XOR S)
BLOffset(hi, lo) ==
    (lo % 2048) * 2 + (hi % 1024) * 4096
        + ((1 + Bit(lo, 11) + Bit(hi, 10)) % 2) * (2 ^ 22)
        + ((1 + Bit(lo, 13) + Bit(hi, 10)) % 2) * (2 ^ 23)
        - Bit(hi, 10) * (2 ^ 24)

\* hi = 0xF000 | S<<10 | imm10 and lo = 0xD000 | J1<<13 | J2<<11 | imm11 of the
\* byte offset o, with S, I1, I2 its bits 24, 23, 22, imm10 its bits 12..21,
\* imm11 its bits 1..11, J1 = !I1 XOR S and J2 = !I2 XOR S
BLHi(o) == 61440 + Bit(o, 24) * 1024 + ((o \div 4096) % 1024)
BLLo(o) ==
    53248 + (IF (Bit(o, 23) = 0) # (Bit(o, 24) = 1) THEN 8192 ELSE 0)
          + (IF (Bit(o, 22) = 0) # (Bit(o, 24) = 1) THEN 2048 ELSE 0)
          + ((o \div 2) % 2048)

\* the even offsets a BL can branch by
InBLRange(o) == -(2 ^ 24) <= o /\ o < 2 ^ 24 /\ o % 2 = 0

\* a THUMB_CALL relocation of Test-01 has just been applied
ThumbCallApplied ==
    /\ draft = "Test01"
    /\ reloc.applied
    /\ reloc.entry.type = MIMI_RELOC_THUMB_CALL

\* C21: the two halfwords written for a THUMB_CALL relocation are hi and lo
\* of the BL formula for o = sym_value - patch_addr - 4, a BL (hi starts
\* 11110, lo has bits 15, 14 and 12 set) that branches by o when o is in its
\* range; for o = 0xFC they are 0xF000 and 0xF87E, and for a symbol 4 bytes
\* after the instruction they encode offset 0.
C21_ThumbCallIsBL ==
    ThumbCallApplied
        => /\ Len(reloc.written) = 2
           /\ reloc.written[1].addr = reloc.patch_addr
           /\ reloc.written[2].addr = reloc.patch_addr + 2
           /\ reloc.written[1].value \div 2048 = 30
           /\ reloc.written[2].value \div 16384 = 3
           /\ Bit(reloc.written[2].value, 12) = 1
           /\ reloc.written[1].value = BLHi(reloc.sym_value - reloc.patch_addr - 4)
           /\ reloc.written[2].value = BLLo(reloc.sym_value - reloc.patch_addr - 4)
           /\ InBLRange(reloc.sym_value - reloc.patch_addr - 4)
                  => BLOffset(reloc.written[1].value, reloc.written[2].value)
                         = reloc.sym_value - reloc.patch_addr - 4
           /\ reloc.sym_value - reloc.patch_addr - 4 = 252
                  => /\ reloc.written[1].value = 61440
                     /\ reloc.written[2].value = 63614
           /\ reloc.sym_value = reloc.patch_addr + 4
                  => BLOffset(reloc.written[1].value, reloc.written[2].value) = 0

\* the call at text offset 0x100 to the symbol at text offset 0x200
C21_Witness ==
    /\ ThumbCallApplied
    /\ reloc.patch_addr = RelocBase + 256
    /\ reloc.sym_value = RelocBase + 512
    /\ reloc.written[2].value = 63614

\* task->mem.<section>_size of the sections a relocation may name
PatchSectionSize(layout, section) ==
    IF section = MIMI_SECT_TEXT THEN layout.text_size
    ELSE IF section = MIMI_SECT_RODATA THEN layout.rodata_size
    ELSE IF section = MIMI_SECT_DATA THEN layout.data_size
    ELSE 0

\* C25: a relocation that the loader of Test-01 applies names TEXT, RODATA or
\* DATA, has offset + 4 <= the size of that section and symbol_idx <
\* symbol_count, and each of its stores lies inside that section of the block.
C25_RelocationsStayInSection ==
    draft = "Test01" /\ reloc.applied
        => /\ reloc.entry.section \in {MIMI_SECT_TEXT, MIMI_SECT_RODATA, MIMI_SECT_DATA}
           /\ reloc.entry.offset + 4
                  <= PatchSectionSize(reloc.layout, reloc.entry.section)
           /\ reloc.entry.symbol_idx < reloc.symbol_count
           /\ \A i \in 1..Len(reloc.written) :
                  /\ reloc.written[i].addr
                         >= PatchSectionStart(reloc.layout, reloc.entry.section)
                  /\ reloc.written[i].addr + reloc.written[i].size
                         <= PatchSectionStart(reloc.layout, reloc.entry.section)
                                + PatchSectionSize(reloc.layout, reloc.entry.section)

\* the bytes of text of the objects before object i
RECURSIVE TextBefore(_, _)
TextBefore(objs, i) ==
    IF i <= 1 THEN 0 ELSE TextBefore(objs, i - 1) + objs[i - 1].code_size

\* symbol j of object i as the combined table should hold it: the value of a
\* TEXT symbol moved by the text that precedes its object
Placed(objs, i, j) ==
    [objs[i].syms[j] EXCEPT !.value =
        IF objs[i].syms[j].section = MIMI_SECT_TEXT
        THEN @ + TextBefore(objs, i) ELSE @]

PlacedSymbols(objs) ==
    UNION {{Placed(objs, i, j) : j \in 1..Len(objs[i].syms)} : i \in 1..Len(objs)}

TableEntries(name) == {k \in 1..Len(lnk.symbols) : lnk.symbols[k].name = name}

GlobalDefs(objs, name) ==
    {s \in PlacedSymbols(objs) : s.name = name /\ s.type = MIMI_SYM_GLOBAL}

\* C22: when the objects of a link have been loaded, every name among their
\* symbols has exactly one entry in lnk.symbols, and a name that some object
\* defines GLOBAL has one of its GLOBAL definitions as that entry.
C22_GlobalWinsMerge ==
    lnk.stage = "loading"
        => \A s \in PlacedSymbols(lnk.objs) :
              /\ Cardinality(TableEntries(s.name)) = 1
              /\ GlobalDefs(lnk.objs, s.name) # {}
                    => \A k \in TableEntries(s.name) :
                           lnk.symbols[k] \in GlobalDefs(lnk.objs, s.name)

\* the values the objects of a link give to a GLOBAL symbol named main
MainDefs(objs) == {s.value : s \in GlobalDefs(objs, "main")}

\* C23: a link that returns MIMIC_OK had an object with a GLOBAL symbol main,
\* and the entry_offset of the header it wrote is the value of such a symbol,
\* moved by the text that precedes its object; without a GLOBAL main among
\* the objects no link returns MIMIC_OK.
C23_EntryIsGlobalMain ==
    (lnk.stage = "done" /\ lnk.err = MIMIC_OK)
        => /\ Len(lnk.hdr_entry_offset) = 1
           /\ \A k \in 1..Len(lnk.hdr_entry_offset) :
                  lnk.hdr_entry_offset[k] \in MainDefs(lnk.objs)

\* a link of two objects succeeded with main in the second one
C23_Witness ==
    /\ lnk.stage = "done"
    /\ lnk.err = MIMIC_OK
    /\ Len(lnk.objs) = 2
    /\ GlobalDefs(<<lnk.objs[1]>>, "main") = {}
    /\ lnk.hdr_entry_offset = <<2 + CodeSize>>

\* links without a GLOBAL main were attempted and failed
C23_WitnessNoMain ==
    /\ lnk.stage = "done"
    /\ Len(lnk.objs) = 2
    /\ MainDefs(lnk.objs) = {}
    /\ lnk.err = MIMIC_ERR_NOENT

\* C24: while a write stream is open and no putc has refused a byte, the bytes
\* putc has taken are the bytes the file has taken followed by those in the
\* buffer, in order and once each; and when close of such a stream returns
\* MIMIC_OK, the file has taken every byte that putc took.
C24_PutcDeliversOnce ==
    (stream.writing /\ ~stream.refused)
        => /\ stream.fd >= 0
                => stream.put = stream.sent \o SubSeq(stream.buffer, 1, stream.buf_pos)
           /\ (stream.op = "close" /\ stream.ret = MIMIC_OK)
                => stream.put = stream.sent

\* a write stream took more bytes than its buffer holds and was closed
C24_Witness ==
    /\ stream.writing
    /\ stream.op = "close"
    /\ stream.ret = MIMIC_OK
    /\ Len(stream.put) > stream.buf_size
    /\ stream.put = stream.sent

\* exactly one slot of ts is RUNNING, and it is slot cur
OneRunning(ts, cur) ==
    {i \in Slots : ts[i].state = TASK_STATE_RUNNING} = {cur}

\* what the tick of mimic_kernel_run's loop leaves, taken in this state
Ticked == scheduler_tick(tasks, current_task, now_ms, running)

\* C26: in every state of the running kernel in which the loop's
\* scheduler_tick can be taken, the tick leaves exactly one task RUNNING, and
\* that task is current_task.
C26_OneRunningAfterTick ==
    (running /\ pc = Idle) => OneRunning(Ticked.tasks, Ticked.current_task)

RECURSIVE SumSizes(_, _)
SumSizes(blocks, i) ==
    IF i > Len(blocks) THEN 0 ELSE blocks[i].size + SumSizes(blocks, i + 1)

\* the blocks of a table tile the pool [base, base + size): none leaves the
\* pool, no two share a byte and their sizes add up to the pool's; the table
\* is within its limit and free_bytes is the sum of the free blocks' sizes
PoolTiled(blocks, base, size, free_bytes) ==
    /\ Len(blocks) >= 1
    /\ Len(blocks) <= MIMIC_MAX_MEM_BLOCKS
    /\ \A i \in 1..Len(blocks) :
          /\ blocks[i].addr >= base
          /\ blocks[i].addr + blocks[i].size <= base + size
    /\ \A i, j \in 1..Len(blocks) :
          i # j => ~Overlap(blocks[i].addr, blocks[i].size,
                            blocks[j].addr, blocks[j].size)
    /\ SumSizes(blocks, 1) = size
    /\ free_bytes = SumFree(blocks, 1)

\* C27: the blocks of the kernel table and those of the user table each tile
\* their pool, neither table exceeds MIMIC_MAX_MEM_BLOCKS entries, and
\* kernel_free and user_free are the sums of the sizes of the free blocks.
C27_PoolPartition ==
    /\ PoolTiled(mem_blocks, kernel_heap, MIMIC_KERNEL_HEAP, kernel_free)
    /\ PoolTiled(user_blocks, user_heap, MIMIC_USER_HEAP, user_free)

\* the user table is full, holds an allocated and a free block, and the
\* coalescing pass of mimic_task_free_all_memory would merge two of its blocks
C27_Witness ==
    /\ draft = "Test01"
    /\ Len(user_blocks) = MIMIC_MAX_MEM_BLOCKS
    /\ \E i \in 1..Len(user_blocks) : ~user_blocks[i].free
    /\ Len(mem_coalesce_pool(user_blocks)) < Len(user_blocks)
    /\ Len(mem_blocks) > 1

\* the sectors of the FAT and of the root directory
FatSectorSet == fat_start_sector..(data_start_sector - 1)
DirSectorSet == {fat32_cluster_to_sector(root_cluster)}

\* what mimic_fwrite may store in a cell of the FAT: a cluster number or the
\* end-of-chain mark
FatValues == DataClusters \cup {FAT32_EOC}

\* C28: a mimic_fwrite of file data changes no cell of the directory sector,
\* and changes a cell of a FAT sector only to a cluster number or to the
\* end-of-chain mark: the bytes of the caller's buffer, those of a write of a
\* whole sector included, reach no FAT sector and no directory sector.
C28_DataStaysOutOfFat ==
    [][\A fd \in Fds, n \in IoSizes :
          FWrite(fd, n)
              => /\ \A s \in DirSectorSet : vol'.disk[s] = vol.disk[s]
                 /\ \A s \in FatSectorSet, c \in Cells :
                       vol'.disk[s][c] # vol.disk[s][c]
                           => vol'.disk[s][c] \in FatValues]_vars

\* the TCB slots in use
UsedSlots == {i \in Slots : tasks[i].state # TASK_STATE_FREE}

\* C29: between the operations of the kernel (loads, kills, exits, sleeps,
\* yields and ticks), task_count is the number of TCB slots whose state is not
\* FREE.
C29_TaskCountIsUsedSlots ==
    pc = Idle => task_count = Cardinality(UsedSlots)

\* C30: while mimic_task_load holds a slot it took with task_alloc and
\* mimic_load_binary has not returned, the slot is BLOCKED, so that it is not
\* among the READY slots a scheduler tick chooses from.
C30_HalfLoadedIsBlocked ==
    pc.op = "load" => tasks[pc.task].state = TASK_STATE_BLOCKED

\* an allocation from the kernel pool has just been made by this step: whether
\* it split the block it chose, and the size that block had
KernelSplit == Len(mem_blocks') = Len(mem_blocks) + 1
KernelChosenSize ==
    (kernel_free - kernel_free')
    + (IF KernelSplit THEN mem_blocks'[Len(mem_blocks')].size ELSE 0)

\* C36: an allocation of n bytes from the kernel pool that returns a block
\* splits the block it chose exactly when that block is at least
\* MIMIC_MIN_BLOCK_SPLIT bytes larger than n aligned up and the table is not
\* full; a block exactly 64 bytes larger is split.
C36_SplitAtThreshold ==
    [][\A n \in KernelAllocSizes :
          (KMalloc(n) /\ ret'.val # NULL)
              => (KernelSplit
                    <=> /\ KernelChosenSize >= RoundUp(n) + MIMIC_MIN_BLOCK_SPLIT
                        /\ Len(mem_blocks) < MIMIC_MAX_MEM_BLOCKS)]_vars

\* the allocated blocks of the kernel table at ptr
LiveAt(ptr) ==
    {i \in 1..Len(mem_blocks) : mem_blocks[i].addr = ptr /\ ~mem_blocks[i].free}

\* C37: mimic_kfree(ptr) with no allocated block at ptr (a block freed before
\* included), or with a pinned one, changes neither the table nor kernel_free
\* nor total_frees; otherwise it marks one allocated block at ptr free, adds
\* that block's size to kernel_free and one to total_frees.
C37_FreeOnceOnly ==
    [][\A p \in KernelPtrs :
          KFree(p)
              => IF p = NULL \/ LiveAt(p) = {}
                    \/ \E i \in LiveAt(p) : mem_blocks[i].pinned
                 THEN /\ mem_blocks' = mem_blocks
                      /\ kernel_free' = kernel_free
                      /\ total_frees' = total_frees
                 ELSE \E i \in LiveAt(p) :
                        /\ mem_blocks' = [mem_blocks EXCEPT ![i].free = TRUE]
                        /\ kernel_free' = kernel_free + mem_blocks[i].size
                        /\ total_frees' = Inc(total_frees)]_vars

\* one block of the kernel pool has been freed and another is still allocated
C37_Witness ==
    /\ ret = NoCall
    /\ total_frees = 1
    /\ \E i, j \in 1..Len(mem_blocks) :
          /\ mem_blocks[i].free
          /\ mem_blocks[i].addr = kernel_heap
          /\ ~mem_blocks[j].free
    /\ kernel_free = SumFree(mem_blocks, 1)

\* the free blocks of the user table that hold n bytes aligned up
Fitting(n) ==
    {i \in 1..Len(user_blocks) :
        user_blocks[i].free /\ user_blocks[i].size >= RoundUp(n)}

\* C40: mimic_umalloc(t, n), n > 0, returns null when no free block of the
\* user table holds n aligned up to 32 bytes; otherwise it returns the address
\* of such a block of the least size, marks it allocated to t and takes the
\* size the block has then from user_free.
C40_BestFit ==
    [][\A t \in ArenaTasks, n \in AllocSizes \ {0} :
          UMalloc(t, n)
              => IF Fitting(n) = {}
                 THEN ret'.val = NULL /\ user_blocks' = user_blocks
                 ELSE \E i \in Fitting(n) :
                        /\ \A j \in Fitting(n) :
                              user_blocks[i].size <= user_blocks[j].size
                        /\ ret'.val = user_blocks[i].addr
                        /\ ~user_blocks'[i].free
                        /\ user_blocks'[i].task_id = t
                        /\ user_free' = user_free - user_blocks'[i].size]_vars

\* C39: slot 0 is READY or RUNNING in every state; mimic_task_sleep while
\* slot 0 is current and mimic_task_kill(0) change no task and not
\* current_task; and the slot a load holds is never slot 0.
C39_IdleNeverSuspended ==
    /\ [](tasks[0].state \in {TASK_STATE_READY, TASK_STATE_RUNNING})
    /\ [](pc.op \in {"load", "kill", "exit"} => pc.task # 0)
    /\ [][\A ms \in SleepTimes :
            (TaskSleep(ms) /\ current_task = 0)
                => UNCHANGED <<tasks, current_task, task_count>>]_vars
    /\ [][TaskKill(0) => UNCHANGED <<tasks, current_task, task_count, pc>>]_vars

\* mimic_task_sleep has returned to the running kernel, slot 0 being current
\* and RUNNING, after a program was loaded and has run
C39_Witness ==
    /\ ret.op = "sleep"
    /\ ret.arg = 0
    /\ current_task = 0
    /\ running
    /\ tasks[0].state = TASK_STATE_RUNNING
    /\ \E t \in UserSlots : tasks[t].state = TASK_STATE_READY

\* the FAT entry of a cluster as the volume holds it: in the sector buffer
\* when the buffer holds that FAT sector, on the card otherwise
FatSeen(v, cluster) ==
    (IF v.cached_sector = FatSector(cluster)
     THEN v.sector_buf[FatOffset(cluster)]
     ELSE v.disk[FatSector(cluster)][FatOffset(cluster)]) % (FAT_ENTRY_MASK + 1)

\* the cluster n links on from cluster; the end-of-chain mark has no link
RECURSIVE ChainWalk(_, _, _)
ChainWalk(v, cluster, n) ==
    IF n = 0 \/ cluster >= FAT32_EOC THEN cluster
    ELSE ChainWalk(v, FatSeen(v, cluster), n - 1)

\* the position a seek asks for
SeekAsked(f, offset, whence) ==
    CASE whence = MIMIC_SEEK_SET -> offset
      [] whence = MIMIC_SEEK_CUR -> f.position + offset
      [] whence = MIMIC_SEEK_END -> f.file_size + offset

Clamp(x, lo, hi) == IF x < lo THEN lo ELSE IF x > hi THEN hi ELSE x

\* what mimic_fseek(fd, offset, whence) makes of the volume and the handle
Sought(fd, offset, whence) == mimic_fseek(vol, files[fd], offset, whence)

\* C38: a mimic_fseek that returns MIMIC_OK, from any state the file system
\* reaches, leaves the position at the position asked for clamped into
\* 0..file_size, current_cluster at the cluster reached from first_cluster by
\* position / bytes_per_cluster links of the FAT, and cluster_offset at
\* position mod bytes_per_cluster.
C38_SeekLandsOnPosition ==
    \A fd \in Fds, o \in SeekOffsets,
       w \in {MIMIC_SEEK_SET, MIMIC_SEEK_CUR, MIMIC_SEEK_END} :
        files[fd].open
            => /\ Sought(fd, o, w).file.position
                      = Clamp(SeekAsked(files[fd], o, w), 0, files[fd].file_size)
               /\ Sought(fd, o, w).file.current_cluster
                      = ChainWalk(vol, files[fd].first_cluster,
                                  Sought(fd, o, w).file.position \div bytes_per_cluster)
               /\ Sought(fd, o, w).file.cluster_offset
                      = Sought(fd, o, w).file.position % bytes_per_cluster
               /\ Sought(fd, o, w).file.file_size = files[fd].file_size
               /\ Sought(fd, o, w).file.first_cluster = files[fd].first_cluster

\* the clusters of the chain that starts at first
ChainOf(v, first) == {ChainWalk(v, first, n) : n \in 0..total_clusters} \ {0, FAT32_EOC}

\* C31: after a mimic_fwrite that wrote, the cluster the handle stands in is
\* on the FAT chain of first_cluster: a cluster the write allocated for a file
\* that had a first cluster already, the handle standing at 0 or at the
\* end-of-chain mark, was linked from the last cluster of the chain.
C31_WrittenClusterLinked ==
    \A fd \in Fds :
        (files[fd].open /\ fs_ret.op = "write" /\ fs_ret.val > 0)
            => files[fd].current_cluster \in ChainOf(vol, files[fd].first_cluster)

\* the names the relocations of the objects refer to in their own objects, in
\* the order the objects were loaded; "" for an index beyond the object's table
RelocName(obj, r) ==
    IF r.symbol_idx < Len(obj.syms) THEN obj.syms[r.symbol_idx + 1].name ELSE ""

RECURSIVE RelocNames(_, _)
RelocNames(objs, i) ==
    IF i > Len(objs) THEN <<>>
    ELSE [k \in 1..Len(objs[i].relocs) |-> RelocName(objs[i], objs[i].relocs[k])]
             \o RelocNames(objs, i + 1)

\* C32: after a link that returns MIMIC_OK every relocation of the combined
\* list that referred to a symbol of its own object carries the index of the
\* entry of the combined symbol table that has that symbol's name.
C32_RelocsRenumbered ==
    (lnk.stage = "done" /\ lnk.err = MIMIC_OK)
        => /\ Len(lnk.relocs) = Len(RelocNames(lnk.objs, 1))
           /\ \A k \in 1..Len(lnk.relocs) :
                  RelocNames(lnk.objs, 1)[k] # ""
                      => /\ lnk.relocs[k].symbol_idx < Len(lnk.symbols)
                         /\ lnk.symbols[lnk.relocs[k].symbol_idx + 1].name
                                = RelocNames(lnk.objs, 1)[k]

\* the bytes a little-endian store of a halfword puts into memory
HalfwordBytes(st) == <<st.value % 256, st.value \div 256>>

\* the four bytes the THUMB_CALL case of the loader puts at patch_addr
LoaderBytes(patch_addr, offset) ==
    HalfwordBytes(thumb_call(patch_addr, offset)[1])
        \o HalfwordBytes(thumb_call(patch_addr, offset)[2])

C35_CheckAndFreeAtomic ==
    (draft = "Test01" /\ conc.freed.done) => conc.freed.owner = conc.freed.task

\* the order in which locks may be taken by one caller
LockRank(l) ==
    CASE l = "task_lock" -> 1
      [] l = "user_lock" -> 2
      [] l = "mem_lock" -> 3
      [] l = "sched_cs" -> 4

ArenaLocks == {"mem_lock", "user_lock"}

\* caller c can take its next step
CanStep(c) ==
    Busy(c) /\ (NextStep(c).kind = "enter" => conc.held[NextStep(c).lock] = 0)

\* C34: a caller inside the critical section of scheduler_tick holds no arena
\* lock and is not about to take one; a caller that takes a lock holds only
\* locks that come before it in the one order task_lock, user_lock, mem_lock,
\* sched_cs; and whenever callers are inside alloc, free, kill or tick, one of
\* them can go on.
C34_NoLockInsideTick ==
    /\ \A c \in Callers :
          "sched_cs" \in HeldBy(c)
              => /\ HeldBy(c) \cap ArenaLocks = {}
                 /\ NextStep(c) = Exit("sched_cs")
    /\ \A c \in Callers :
          (Busy(c) /\ NextStep(c).kind = "enter")
              => \A l \in HeldBy(c) : LockRank(l) < LockRank(NextStep(c).lock)
    /\ (\E c \in Callers : Busy(c)) => \E c \in Callers : CanStep(c)

\* a kill holds task_lock and user_lock while a mimic_ufree of the other
\* caller waits for user_lock and is let in afterwards
C34_Witness ==
    /\ conc.held["task_lock"] = 1
    /\ conc.held["user_lock"] = 1
    /\ conc.at[1].op = "kill"
    /\ conc.at[2].op = "ufree"
    /\ NextStep(2) = Enter("user_lock")
    /\ ~CanStep(2)
====
